---- MODULE Spec2Model ----
(***************************************************************************)
(* HybridRouter (src/router/hybrid_router.py): the fallback router that    *)
(* delivers a message through the direct API, the WebSocket API or browser *)
(* automation.  One router instance, one send_message call in flight; the  *)
(* call is modelled step by step, one step per awaited transport           *)
(* operation.  The three transports are the environment: what connect,     *)
(* start, send_message, wait_for_response and extract_auth_data hand back  *)
(* to the router is chosen from the values their code can produce.         *)
(* close() may run while a call is in flight (telegram_bot.reset_command   *)
(* runs it on a thread of its own).                                        *)
(*                                                                         *)
(* A text is a sequence of words; the empty text is <<>>.                  *)
(*                                                                         *)
(* The request registries of the two socket transports                     *)
(* (src/api/websocket_client.py, src/api/direct_api_client.py) are         *)
(* modelled apart from the router, under SpecSock: one caller that sends   *)
(* and waits, and the listener task, which may run whenever the caller is  *)
(* suspended in an await.  SpecStream is the same machine keeping only the *)
(* per-request history of streamed chunks.  SpecConn is the connection of  *)
(* one socket transport: connect, reconnect and close step by step, with   *)
(* the listener tasks and the sockets they read.                           *)
(*                                                                         *)
(* TokenManager (src/auth/token_manager.py) is modelled under SpecTokens:  *)
(* the in-memory mapping, the encrypted file, a clock in half seconds and  *)
(* a second TokenManager constructed on the same file.                     *)
(*                                                                         *)
(* SpecConnFair is SpecConn with every step of the listener and of a       *)
(* pending connect or close taken eventually.  SpecAuto is the router in   *)
(* AUTO mode alone; SpecChunks adds the chunks the transports stream to    *)
(* on_update while a call is suspended.  SpecBundle follows a credential   *)
(* bundle from the page's socket traffic through extract_auth_data and the *)
(* router into a ReplitWebSocketClient and its connect().                  *)
(***************************************************************************)
EXTENDS Integers, Sequences, FiniteSets, TLC

\* ---------------------------------------------------------------- bounds
MaxCalls == 4
\* send_message calls made on the socket transport
MaxReqs == 2
\* messages the remote side sends to the listener
MaxMsgs == 3
\* milliseconds that pass on the clock
MaxClock == 1
\* sockets one transport opens over its lifetime
MaxSocks == 2
\* half seconds that pass on the clock of the token manager
MaxTicks == 3
\* frames the page's socket traffic holds
MaxFrames == 2

\* ------------------------------------------------------------- constants
DIRECT_API == "DIRECT_API"
WEBSOCKET_API == "WEBSOCKET_API"
BROWSER_AUTOMATION == "BROWSER_AUTOMATION"
AUTO == "AUTO"
None == "None"
Client == "client"

RouterMethod == {DIRECT_API, WEBSOCKET_API, BROWSER_AUTOMATION, AUTO}
Strategies == {DIRECT_API, WEBSOCKET_API, BROWSER_AUTOMATION}
SocketStrategies == {DIRECT_API, WEBSOCKET_API}

\* the order of the three blocks of send_message
Order == <<DIRECT_API, WEBSOCKET_API, BROWSER_AUTOMATION>>
Pos(s) == CHOOSE i \in 1..3 : Order[i] = s

max_direct_api_failures == 3
max_websocket_failures == 3
max_browser_failures == 3

\* ReplitWebSocketClient.__init__
backoff_time == 1
max_backoff_time == 30
max_reconnect_attempts == 5

ConnectionState == {"DISCONNECTED", "CONNECTING", "CONNECTED", "HANDSHAKING",
                    "NO_CONNECTION", "BACKING_OFF", "ERROR", "CLOSED"}

\* ----------------------------------------------------------------- texts
ERROR_MARK == "Error:"
Responses == { <<"hello-response">>, <<"ok">> }
NoResponseNotice == <<"No response received from Replit Agent.">>
TimeoutNotice == <<"Timeout waiting for response from Replit Agent.">>
BrowserErrorText == <<ERROR_MARK, "Could not find input element">>
AllFailedText == <<"Failed to get a response from Replit Agent through any method.">>
InitBrowserFailed == <<"Failed to initialize browser client">>
NoneTypeError == <<"'NoneType' object has no attribute 'send_message'">>

\* the f-string  f"Error: {str(e)}"
ErrorString(e) == <<ERROR_MARK>> \o e
\* the f-string  f"Browser automation failed: {response}"
BrowserFailed(response) == <<"Browser automation failed:">> \o response

\* "Error:" in response
HasErrorMark(t) == \E i \in 1..Len(t) : t[i] = ERROR_MARK

\* values a transport operation hands back: a text, None, or an exception
Text(t) == [kind |-> "text", text |-> t]
NoneVal == [kind |-> "none", text |-> <<>>]
Raise == [kind |-> "raise", text |-> <<>>]
\* Python truthiness of a returned value
Truthy(v) == v.kind = "text" /\ Len(v.text) > 0

Bundles == {"b1"}

\* ------------------------------------------------ what the transports yield
\* ReplitDirectAPIClient.connect: True, False, or raises (no auth data)
DirectConnectOutcomes == {"ok", "false", "raise"}
\* ReplitWebSocketClient.connect: True or False, every exception is caught
WsConnectOutcomes == {"ok", "false"}
\* ReplitBrowserClient.start: True or False, every exception is caught
BrowserStartOutcomes == {"ok", "false"}
\* ReplitDirectAPIClient.send_message: a fresh uuid, or raises
DirectSendOutcomes == {"id", "raise"}
\* ReplitWebSocketClient.send_message: the id, or None
WsSendOutcomes == {"id", "none"}
\* wait_for_response: the content (maybe empty), or None on timeout
WaitOutcomes == {Text(r) : r \in Responses} \cup {Text(<<>>), NoneVal}
\* ReplitBrowserClient.send_message: the response text, a notice, or "Error: ..."
BrowserSendOutcomes == {Text(r) : r \in Responses}
                         \cup {Text(NoResponseNotice), Text(TimeoutNotice), Text(BrowserErrorText)}
\* extract_auth_data: a bundle or None
ExtractOutcomes == Bundles \cup {None}

VARIABLES
    method,                \* self.method, fixed at construction
    direct_client,         \* self.direct_client: None or a client
    ws_client,             \* self.ws_client
    ws_state,              \* self.ws_client.state
    browser_client,        \* self.browser_client
    browser_initialized,   \* self.browser_client.initialized
    last_method_used,
    direct_api_failures,
    websocket_failures,
    browser_failures,
    successful_api_calls,
    total_api_calls,
    auth_data,             \* self.auth_data
    tokens,                \* token_manager.tokens[user_id]['data'], or None
    pc,                    \* position of the send_message call in flight
    local_method,          \* the local variable "method" of send_message
    result,                \* the text send_message returned
    escaped,               \* an exception left send_message
    \* history of the current call
    start,                 \* what _determine_method returned
    attempted,             \* strategies whose block was entered, in order
    obs,                   \* per strategy: how its attempt ended
    result_by,             \* the strategy whose response was returned
    f0,                    \* the counters right after _determine_method
    succ0,                 \* successful_api_calls when the call began
    prev_failed,           \* the previous call returned no response
    \* histories kept only by the specifications that read them
    recording,             \* which of the two histories below are kept
    succeeded,             \* strategies that have delivered a response so far
    writes,                \* store_user_tokens calls of the current call
    ws_requests,           \* requests with an on_update in ws_client.handlers
    heard,                 \* whose chunks the caller's on_update got in this call
    \* close()
    just_closed,           \* close() returned and nothing has run since
    close_escaped,         \* an exception left close()
    \* a socket transport, its caller and its listener
    transport,             \* "ws": ReplitWebSocketClient, "direct": ReplitDirectAPIClient
    responses,             \* ReplitWebSocketClient.responses
    handlers,              \* ReplitWebSocketClient.handlers
    message_callbacks,     \* ReplitDirectAPIClient.message_callbacks
    future,                \* response_future of the wait_for_response in progress
    now,                   \* int(time.time() * 1000)
    caller,                \* where the caller of the transport stands
    cur,                   \* the request the caller is busy with
    requests,              \* send_message calls made so far
    received,              \* messages the listener has taken from the socket
    \* history of the transport
    issued,                \* request ids registered so far
    cb_log,                \* callbacks invoked, in order
    wait_log,              \* what each wait_for_response returned, in order
    timed_out,             \* ids whose wait_for_response timed out
    at_timeout,            \* the registry entries of such an id at that moment
    recv_log,              \* messages the listener took from the socket, in order
    reg_log,               \* the ids send_message registered, in order
    stream,                \* per id: chunks received for it, chunks handed to on_update
    \* the connection of the socket transport
    state,                 \* ReplitWebSocketClient.state
    ws,                    \* self.ws: 0 for None, else the number of the socket
    socks,                 \* every socket opened so far: "open", "closed", "lost"
    tasks,                 \* every listener task created so far
    task,                  \* self.task / self.message_task: 0 for None
    reconnect_attempts,
    initialized,           \* ReplitDirectAPIClient.initialized
    connection_established,\* ReplitDirectAPIClient.connection_established is set
    creds,                 \* the auth data yields what connect() needs
    op,                    \* the connect / reconnect / close call in progress
    \* history of the connection
    call,                  \* the last such call: what it found, what it left
    last_reconnect,        \* the last entry into reconnect()
    backoffs,              \* the delays slept, each with its attempt number
    since_ok,              \* reconnect attempts since the last successful connect
    reaped,                \* listener tasks that ran when a close() now returned began
    heard_late,            \* such a task has processed a message since
    \* the TokenManager
    user_tokens,           \* TokenManager.tokens: user id -> {data, stored_at}
    tokens_file,           \* what tokens.enc holds
    clock,                 \* time.time(), in ticks of half a second
    second,                \* the tokens of a TokenManager constructed afterwards
    \* history of the TokenManager
    stored_tick,           \* per user: the tick of its last store_user_tokens
    last,                  \* the last store_user_tokens / delete_user_tokens call
    \* the credential bundle on its way from the browser to the socket
    ws_traffic,            \* window.__ws_traffic.messages of the page
    extracted,             \* what extract_auth_data returned last
    stored_bundle,         \* HybridRouter.auth_data, as a dict
    wsclient               \* a ReplitWebSocketClient made from it

routerVars == <<method, direct_client, ws_client, ws_state, browser_client,
                browser_initialized, last_method_used, direct_api_failures,
                websocket_failures, browser_failures, successful_api_calls,
                total_api_calls, auth_data, tokens>>
callVars == <<pc, local_method, result, escaped>>
histVars == <<start, attempted, obs, result_by, f0, succ0, prev_failed,
              recording, succeeded, writes>>
closeVars == <<just_closed, close_escaped>>
chunkVars == <<ws_requests, heard>>
reqVars == <<responses, handlers, message_callbacks, future, now,
             caller, cur, requests, received, issued, cb_log, wait_log,
             timed_out, at_timeout, recv_log, reg_log, stream>>
connVars == <<state, ws, socks, tasks, task, reconnect_attempts, initialized,
              connection_established, creds, op, call, last_reconnect, backoffs,
              since_ok, reaped, heard_late>>
sockVars == <<transport, reqVars, connVars>>
tmVars == <<user_tokens, tokens_file, clock, second, stored_tick, last>>
bundleVars == <<ws_traffic, extracted, stored_bundle, wsclient>>
vars == <<routerVars, callVars, histVars, closeVars, chunkVars, sockVars, tmVars,
          bundleVars>>

NoObs == [tag |-> "none", text |-> <<>>]
Obs(tag, t) == [tag |-> tag, text |-> t]

Failures(s) ==
    IF s = DIRECT_API THEN direct_api_failures
    ELSE IF s = WEBSOCKET_API THEN websocket_failures
    ELSE browser_failures

\* ------------------------------------------------------------------ Init
\* HybridRouter.__init__, and a call that has not begun
InitRouter ==
    /\ method \in RouterMethod
    /\ direct_client = None
    /\ ws_client = None
    /\ ws_state = "DISCONNECTED"
    /\ browser_client = None
    /\ browser_initialized = FALSE
    /\ last_method_used = None
    /\ direct_api_failures = 0
    /\ websocket_failures = 0
    /\ browser_failures = 0
    /\ successful_api_calls = 0
    /\ total_api_calls = 0
    /\ tokens \in Bundles \cup {None}
    /\ auth_data = tokens
    /\ pc = "idle"
    /\ local_method = None
    /\ result = <<>>
    /\ escaped = FALSE
    /\ start = None
    /\ attempted = <<>>
    /\ obs = [s \in Strategies |-> NoObs]
    /\ result_by = None
    /\ f0 = [s \in Strategies |-> 0]
    /\ succ0 = 0
    /\ prev_failed = FALSE
    /\ succeeded = {}
    /\ writes = <<>>
    /\ just_closed = FALSE
    /\ close_escaped = FALSE
    /\ ws_requests = {}
    /\ heard = {}

\* a TokenManager constructed on an empty storage directory
NoMutation == [op |-> "none", user |-> None, data |-> None, ok |-> FALSE,
               before |-> <<>>]
\* no file tokens.enc
Absent == [key |-> "absent", text |-> {}]
BundleIdle ==
    /\ ws_traffic = <<>>
    /\ extracted = {}
    /\ stored_bundle = {}
    /\ wsclient = {}

TmIdle ==
    /\ user_tokens = <<>>
    /\ tokens_file = Absent
    /\ clock = 0
    /\ second = {}
    /\ stored_tick = <<>>
    /\ last = NoMutation

\* a socket transport after __init__, before its first send_message
NoRequest == [id |-> <<>>, req |-> 0]
NoFuture == [waiting |-> FALSE, done |-> FALSE, content |-> <<>>]

NoOp == [name |-> "none", at |-> "none", running0 |-> {}, inner |-> FALSE]
NoCall == [name |-> "none", pre |-> FALSE, socks0 |-> 0, tasks0 |-> 0,
           done |-> FALSE, ret |-> "none", socks1 |-> 0, tasks1 |-> 0, post |-> FALSE]
NoReconnect == [k0 |-> 0, slept |-> FALSE, state1 |-> "none", ret |-> "none"]

\* the connection after __init__: nothing opened, no listener
ConnIdle ==
    /\ state = "DISCONNECTED"
    /\ ws = 0
    /\ socks = <<>>
    /\ tasks = <<>>
    /\ task = 0
    /\ reconnect_attempts = 0
    /\ initialized = FALSE
    /\ connection_established = FALSE
    /\ op = NoOp
    /\ call = NoCall
    /\ last_reconnect = NoReconnect
    /\ backoffs = {}
    /\ since_ok = 0
    /\ reaped = {}
    /\ heard_late = FALSE

SockIdle(tr) ==
    /\ transport = tr
    /\ ConnIdle
    /\ responses = <<>>
    /\ handlers = <<>>
    /\ message_callbacks = <<>>
    /\ future = NoFuture
    /\ now = 0
    /\ caller = "idle"
    /\ cur = NoRequest
    /\ requests = 0
    /\ received = 0
    /\ issued = {}
    /\ cb_log = <<>>
    /\ wait_log = <<>>
    /\ timed_out = {}
    /\ at_timeout = <<>>
    /\ recv_log = <<>>
    /\ reg_log = <<>>
    /\ stream = <<>>

Init ==
    /\ InitRouter
    /\ TmIdle
    /\ BundleIdle
    /\ recording = {}
    /\ SockIdle("ws")
    /\ creds = TRUE

\* the same router, with the store_user_tokens calls of each call written down
InitStore ==
    /\ InitRouter
    /\ TmIdle
    /\ BundleIdle
    /\ recording = {"store"}
    /\ SockIdle("ws")
    /\ creds = TRUE

\* a router in AUTO mode (the default of __init__), with the strategies that
\* have ever delivered written down
InitLifetime ==
    /\ InitRouter
    /\ TmIdle
    /\ BundleIdle
    /\ method = AUTO
    /\ recording = {"lifetime"}
    /\ SockIdle("ws")
    /\ creds = TRUE

\* either socket transport on its own; the router around it stays as built
InitSock ==
    /\ InitRouter
    /\ TmIdle
    /\ BundleIdle
    /\ method = AUTO
    /\ tokens = None
    /\ recording = {"sock"}
    /\ \E tr \in {"ws", "direct"} : SockIdle(tr)
    /\ creds = TRUE

\* the same, keeping of the transport's history only the messages received
\* and the callbacks invoked
InitStream ==
    /\ InitRouter
    /\ TmIdle
    /\ BundleIdle
    /\ method = AUTO
    /\ tokens = None
    /\ recording = {"stream"}
    /\ \E tr \in {"ws", "direct"} : SockIdle(tr)
    /\ creds = TRUE

\* a step of anything but close()
NotClose ==
    /\ just_closed' = FALSE
    /\ UNCHANGED <<close_escaped, recording, sockVars, tmVars, bundleVars>>

\* the chunks handed to the caller's on_update are kept (SpecChunks)
ChunkHistory == "chunks" \in recording

\* ---------------------------------------------------- _determine_method
\* _determine_method with the final "return RouterMethod.DIRECT_API" left out
DetermineMethodNoReturn ==
    LET keep(m) == [m |-> m, d |-> direct_api_failures,
                    w |-> websocket_failures, b |-> browser_failures]
    IN  IF method # AUTO THEN keep(method)
        ELSE IF direct_client # None /\ successful_api_calls > 0
                /\ direct_api_failures < max_direct_api_failures
             THEN keep(DIRECT_API)
        ELSE IF ws_client # None /\ successful_api_calls > 0
                /\ websocket_failures < max_websocket_failures
             THEN keep(WEBSOCKET_API)
        ELSE IF direct_api_failures < max_direct_api_failures THEN keep(DIRECT_API)
        ELSE IF websocket_failures < max_websocket_failures THEN keep(WEBSOCKET_API)
        ELSE IF browser_failures < max_browser_failures THEN keep(BROWSER_AUTOMATION)
        ELSE [m |-> None, d |-> 0, w |-> 0, b |-> 0]

\* _determine_method without "if self.method != RouterMethod.AUTO: return"
DetermineMethodNoPin ==
    LET keep(m) == [m |-> m, d |-> direct_api_failures,
                    w |-> websocket_failures, b |-> browser_failures]
    IN  IF direct_client # None /\ successful_api_calls > 0
                /\ direct_api_failures < max_direct_api_failures
             THEN keep(DIRECT_API)
        ELSE IF ws_client # None /\ successful_api_calls > 0
                /\ websocket_failures < max_websocket_failures
             THEN keep(WEBSOCKET_API)
        ELSE IF direct_api_failures < max_direct_api_failures THEN keep(DIRECT_API)
        ELSE IF websocket_failures < max_websocket_failures THEN keep(WEBSOCKET_API)
        ELSE IF browser_failures < max_browser_failures THEN keep(BROWSER_AUTOMATION)
        ELSE [m |-> DIRECT_API, d |-> 0, w |-> 0, b |-> 0]

\* _determine_method with the WebSocket test ahead of the direct one in the
\* priority order
DetermineMethodWsFirst ==
    LET keep(m) == [m |-> m, d |-> direct_api_failures,
                    w |-> websocket_failures, b |-> browser_failures]
    IN  IF method # AUTO THEN keep(method)
        ELSE IF direct_client # None /\ successful_api_calls > 0
                /\ direct_api_failures < max_direct_api_failures
             THEN keep(DIRECT_API)
        ELSE IF ws_client # None /\ successful_api_calls > 0
                /\ websocket_failures < max_websocket_failures
             THEN keep(WEBSOCKET_API)
        ELSE IF websocket_failures < max_websocket_failures THEN keep(WEBSOCKET_API)
        ELSE IF direct_api_failures < max_direct_api_failures THEN keep(DIRECT_API)
        ELSE IF browser_failures < max_browser_failures THEN keep(BROWSER_AUTOMATION)
        ELSE [m |-> DIRECT_API, d |-> 0, w |-> 0, b |-> 0]

\* _determine_method that returns DIRECT_API at the end without zeroing the
\* counters
DetermineMethodNoReset ==
    LET keep(m) == [m |-> m, d |-> direct_api_failures,
                    w |-> websocket_failures, b |-> browser_failures]
    IN  IF method # AUTO THEN keep(method)
        ELSE IF direct_client # None /\ successful_api_calls > 0
                /\ direct_api_failures < max_direct_api_failures
             THEN keep(DIRECT_API)
        ELSE IF ws_client # None /\ successful_api_calls > 0
                /\ websocket_failures < max_websocket_failures
             THEN keep(WEBSOCKET_API)
        ELSE IF direct_api_failures < max_direct_api_failures THEN keep(DIRECT_API)
        ELSE IF websocket_failures < max_websocket_failures THEN keep(WEBSOCKET_API)
        ELSE IF browser_failures < max_browser_failures THEN keep(BROWSER_AUTOMATION)
        ELSE keep(DIRECT_API)

\* the value returned and the three counters it leaves behind
DetermineMethod ==
    LET keep(m) == [m |-> m, d |-> direct_api_failures,
                    w |-> websocket_failures, b |-> browser_failures]
    IN  IF method # AUTO THEN keep(method)
        ELSE IF direct_client # None /\ successful_api_calls > 0
                /\ direct_api_failures < max_direct_api_failures
             THEN keep(DIRECT_API)
        ELSE IF ws_client # None /\ successful_api_calls > 0
                /\ websocket_failures < max_websocket_failures
             THEN keep(WEBSOCKET_API)
        ELSE IF direct_api_failures < max_direct_api_failures THEN keep(DIRECT_API)
        ELSE IF websocket_failures < max_websocket_failures THEN keep(WEBSOCKET_API)
        ELSE IF browser_failures < max_browser_failures THEN keep(BROWSER_AUTOMATION)
        ELSE [m |-> DIRECT_API, d |-> 0, w |-> 0, b |-> 0]

\* ------------------------------------------- pieces of send_message
\* escalation that always goes straight to the browser
EscalateToBrowser(s) == BROWSER_AUTOMATION

\* the strategy a failed block hands over to (method = RouterMethod.X)
Escalate(s) ==
    IF s = DIRECT_API THEN WEBSOCKET_API ELSE BROWSER_AUTOMATION

\* the chain of "if method == ..." blocks: the first block at or after
\* block k whose test accepts m; "done" when control reaches the final return
Goto(k, m) ==
    IF k <= 1 /\ m = DIRECT_API THEN "direct_init"
    ELSE IF k <= 2 /\ m = WEBSOCKET_API THEN "ws_init"
    ELSE IF k <= 3 /\ m = BROWSER_AUTOMATION THEN "browser_init"
    ELSE "done"

\* an initialisation failure that is not counted
InitFailCountNone(n) == n

\* an initialisation failure that is counted twice
InitFailCountTwice(n) == n + 2

\* self.x_failures += 1 in _init_direct_api, _init_websocket_api, _init_browser
InitFailCount(n) == n + 1

\* an exception of a socket block that is not counted
ExceptCountNone(n) == n

\* self.x_failures += 1 in the except clauses of the two socket blocks
ExceptCount(n) == n + 1

\* self.browser_failures += 1 in the else branch of the browser block
BrowserFailCount(n) == n + 1

\* a success that zeroes all three counters
OnSuccessAll(s) == [d |-> 0, w |-> 0, b |-> 0]

\* a success that also takes one failure off the other two counters
OnSuccessForgiving(s) ==
    LET less(n) == IF n > 0 THEN n - 1 ELSE 0
    IN  [d |-> IF s = DIRECT_API THEN 0 ELSE less(direct_api_failures),
         w |-> IF s = WEBSOCKET_API THEN 0 ELSE less(websocket_failures),
         b |-> IF s = BROWSER_AUTOMATION THEN 0 ELSE less(browser_failures)]

\* the counters after strategy s delivered a response (self.x_failures = 0)
OnSuccess(s) ==
    [d |-> IF s = DIRECT_API THEN 0 ELSE direct_api_failures,
     w |-> IF s = WEBSOCKET_API THEN 0 ELSE websocket_failures,
     b |-> IF s = BROWSER_AUTOMATION THEN 0 ELSE browser_failures]

\* self.successful_api_calls += 1 in the two socket blocks; the browser
\* block has no such statement
SuccessCount(s, n) == IF s \in SocketStrategies THEN n + 1 ELSE n

\* "if response:" of the socket blocks
SocketAccepts(v) == Truthy(v)

\* "if response and 'Error:' not in response:" of the browser block
BrowserAccepts(v) == Truthy(v) /\ ~HasErrorMark(v.text)

\* a send_message without the outer try: the exception leaves the call
OuterExceptMissing(e) == [escaped |-> TRUE, result |-> <<>>]

\* the outer "except Exception as e: return f'Error: {str(e)}'"
OuterExcept(e) == [escaped |-> FALSE, result |-> ErrorString(e)]

\* the counters with the one of strategy s replaced by n
SetCounter(s, n) ==
    [d |-> IF s = DIRECT_API THEN n ELSE direct_api_failures,
     w |-> IF s = WEBSOCKET_API THEN n ELSE websocket_failures,
     b |-> IF s = BROWSER_AUTOMATION THEN n ELSE browser_failures]

SameCounters ==
    [d |-> direct_api_failures, w |-> websocket_failures, b |-> browser_failures]

Counters(c) ==
    /\ direct_api_failures' = c.d
    /\ websocket_failures' = c.w
    /\ browser_failures' = c.b

\* a socket block gives up: fall out of block k towards the next block
FallThrough(k, s, c, tag) ==
    /\ Counters(c)
    /\ local_method' = Escalate(s)
    /\ last_method_used' = Escalate(s)
    /\ pc' = Goto(k + 1, Escalate(s))
    /\ result' = IF Goto(k + 1, Escalate(s)) = "done" THEN AllFailedText ELSE result
    /\ obs' = [obs EXCEPT ![s] = Obs(tag, <<>>)]
    /\ UNCHANGED <<escaped, result_by, successful_api_calls, succeeded>>

\* a block returns the response v of strategy s
ReturnResponse(s, v) ==
    /\ Counters(OnSuccess(s))
    /\ successful_api_calls' = SuccessCount(s, successful_api_calls)
    /\ result' = v.text
    /\ result_by' = s
    /\ succeeded' = IF "lifetime" \in recording THEN succeeded \cup {s} ELSE succeeded
    /\ pc' = "done"
    /\ obs' = [obs EXCEPT ![s] = Obs("ok", v.text)]
    /\ UNCHANGED <<escaped, local_method, last_method_used>>

\* an exception e reaches the outer try of send_message
ReturnError(s, c, e, tag) ==
    /\ Counters(c)
    /\ result' = OuterExcept(e).result
    /\ escaped' = OuterExcept(e).escaped
    /\ pc' = "done"
    /\ obs' = [obs EXCEPT ![s] = Obs(tag, e)]
    /\ UNCHANGED <<result_by, successful_api_calls, succeeded, local_method,
                   last_method_used>>

\* ------------------------------------------------------- send_message
\* lines 210-212: selection, then entry into the chain of blocks
SendMessage ==
    /\ pc \in {"idle", "done"}
    /\ total_api_calls < MaxCalls
    /\ LET dm == DetermineMethod
       IN  /\ Counters([d |-> dm.d, w |-> dm.w, b |-> dm.b])
           /\ last_method_used' = dm.m
           /\ local_method' = dm.m
           /\ start' = dm.m
           /\ f0' = [s \in Strategies |->
                        IF s = DIRECT_API THEN dm.d
                        ELSE IF s = WEBSOCKET_API THEN dm.w ELSE dm.b]
           /\ pc' = Goto(1, dm.m)
           /\ result' = IF Goto(1, dm.m) = "done" THEN AllFailedText ELSE <<>>
    /\ total_api_calls' = total_api_calls + 1
    /\ escaped' = FALSE
    /\ attempted' = <<>>
    /\ obs' = [s \in Strategies |-> NoObs]
    /\ result_by' = None
    /\ succ0' = successful_api_calls
    /\ prev_failed' = (pc = "done" /\ result_by = None)
    /\ writes' = <<>>
    /\ ws_requests' = IF ws_requests = {} THEN {} ELSE {"earlier"}
    /\ heard' = {}
    /\ UNCHANGED <<method, direct_client, ws_client, ws_state, browser_client,
                   browser_initialized, successful_api_calls, auth_data, tokens>>
    /\ UNCHANGED succeeded
    /\ NotClose

\* block 1, "initialized = await self._init_direct_api()"
DirectInit ==
    /\ pc = "direct_init"
    /\ attempted' = Append(attempted, DIRECT_API)
    /\ IF direct_client # None
       THEN /\ pc' = "direct_send"
            /\ UNCHANGED <<direct_client, direct_api_failures, websocket_failures,
                           browser_failures, local_method, last_method_used,
                           result, obs, escaped, result_by, successful_api_calls, succeeded>>
       ELSE \E o \in DirectConnectOutcomes :
              IF o = "ok"
              THEN /\ direct_client' = Client
                   /\ pc' = "direct_send"
                   /\ UNCHANGED <<direct_api_failures, websocket_failures,
                                  browser_failures, local_method, last_method_used,
                                  result, obs, escaped, result_by, successful_api_calls, succeeded>>
              ELSE /\ direct_client' = None
                   /\ FallThrough(1, DIRECT_API,
                                  SetCounter(DIRECT_API, InitFailCount(direct_api_failures)),
                                  IF o = "raise" THEN "init_raise" ELSE "init_false")
    /\ UNCHANGED <<method, ws_client, ws_state, browser_client, browser_initialized,
                   total_api_calls, auth_data, tokens>>
    /\ UNCHANGED writes
    /\ UNCHANGED <<start, f0, succ0, prev_failed>>
    /\ UNCHANGED chunkVars
    /\ NotClose

\* block 1, "message_id = await self.direct_client.send_message(...)"
DirectSend ==
    /\ pc = "direct_send"
    /\ \E o \in (IF direct_client = None THEN {"raise"} ELSE DirectSendOutcomes) :
          IF o = "id"
          THEN /\ pc' = "direct_wait"
               /\ UNCHANGED <<direct_api_failures, websocket_failures, browser_failures,
                              local_method, last_method_used, result, obs, escaped,
                              result_by, successful_api_calls, succeeded>>
          ELSE FallThrough(1, DIRECT_API,
                           SetCounter(DIRECT_API, ExceptCount(direct_api_failures)),
                           "send_raise")
    /\ UNCHANGED <<method, direct_client, ws_client, ws_state, browser_client,
                   browser_initialized, total_api_calls, auth_data, tokens>>
    /\ UNCHANGED writes
    /\ UNCHANGED <<start, attempted, f0, succ0, prev_failed>>
    /\ UNCHANGED chunkVars
    /\ NotClose

\* block 1, "response = await self.direct_client.wait_for_response(message_id)"
DirectWait ==
    /\ pc = "direct_wait"
    /\ \E v \in (IF direct_client = None THEN {Raise} ELSE WaitOutcomes) :
          IF v.kind = "raise"
          THEN FallThrough(1, DIRECT_API,
                           SetCounter(DIRECT_API, ExceptCount(direct_api_failures)),
                           "wait_raise")
          ELSE IF SocketAccepts(v)
          THEN ReturnResponse(DIRECT_API, v)
          ELSE FallThrough(1, DIRECT_API, SameCounters,
                           IF v.kind = "none" THEN "wait_timeout" ELSE "wait_empty")
    /\ UNCHANGED <<method, direct_client, ws_client, ws_state, browser_client,
                   browser_initialized, total_api_calls, auth_data, tokens>>
    /\ UNCHANGED writes
    /\ UNCHANGED <<start, attempted, f0, succ0, prev_failed>>
    /\ UNCHANGED chunkVars
    /\ NotClose

\* block 2, "initialized = await self._init_websocket_api()"
WsInit ==
    /\ pc = "ws_init"
    /\ attempted' = Append(attempted, WEBSOCKET_API)
    /\ ws_requests' = IF ws_client # None /\ ws_state = "CONNECTED"
                      THEN ws_requests ELSE {}
    /\ UNCHANGED heard
    /\ IF ws_client # None /\ ws_state = "CONNECTED"
       THEN /\ pc' = "ws_send"
            /\ UNCHANGED <<ws_client, ws_state, direct_api_failures, websocket_failures,
                           browser_failures, local_method, last_method_used,
                           result, obs, escaped, result_by, successful_api_calls, succeeded>>
       ELSE \E o \in WsConnectOutcomes :
              IF o = "ok"
              THEN /\ ws_client' = Client
                   /\ ws_state' = "CONNECTED"
                   /\ pc' = "ws_send"
                   /\ UNCHANGED <<direct_api_failures, websocket_failures,
                                  browser_failures, local_method, last_method_used,
                                  result, obs, escaped, result_by, successful_api_calls, succeeded>>
              ELSE /\ ws_client' = None
                   /\ ws_state' = "DISCONNECTED"
                   /\ FallThrough(2, WEBSOCKET_API,
                                  SetCounter(WEBSOCKET_API, InitFailCount(websocket_failures)),
                                  IF o = "raise" THEN "init_raise" ELSE "init_false")
    /\ UNCHANGED <<method, direct_client, browser_client, browser_initialized,
                   total_api_calls, auth_data, tokens>>
    /\ UNCHANGED writes
    /\ UNCHANGED <<start, f0, succ0, prev_failed>>
    /\ NotClose

\* block 2, "message_id = await self.ws_client.send_message(...)"
WsSend ==
    /\ pc = "ws_send"
    /\ \E o \in (IF ws_client = None THEN {"raise"} ELSE WsSendOutcomes) :
          IF o = "id"
          THEN /\ pc' = "ws_wait"
               /\ ws_state' = "CONNECTED"
               /\ ws_requests' = IF ChunkHistory THEN ws_requests \cup {"current"}
                                 ELSE ws_requests
               /\ UNCHANGED <<direct_api_failures, websocket_failures, browser_failures,
                              local_method, last_method_used, result, obs, escaped,
                              result_by, successful_api_calls, succeeded>>
          ELSE IF o = "none"
          THEN /\ ws_state' \in (IF ws_state = "CONNECTED" THEN {"CONNECTED"}
                                 ELSE {"CONNECTED", "NO_CONNECTION"})
               /\ UNCHANGED ws_requests
               /\ FallThrough(2, WEBSOCKET_API, SameCounters, "send_none")
          ELSE /\ UNCHANGED <<ws_state, ws_requests>>
               /\ FallThrough(2, WEBSOCKET_API,
                              SetCounter(WEBSOCKET_API, ExceptCount(websocket_failures)),
                              "send_raise")
    /\ UNCHANGED <<method, direct_client, ws_client, browser_client,
                   browser_initialized, total_api_calls, auth_data, tokens>>
    /\ UNCHANGED writes
    /\ UNCHANGED <<start, attempted, f0, succ0, prev_failed>>
    /\ UNCHANGED heard
    /\ NotClose

\* block 2, "response = await self.ws_client.wait_for_response(message_id)"
WsWait ==
    /\ pc = "ws_wait"
    /\ \E v \in (IF ws_client = None THEN {Raise} ELSE WaitOutcomes) :
          IF v.kind = "raise"
          THEN FallThrough(2, WEBSOCKET_API,
                           SetCounter(WEBSOCKET_API, ExceptCount(websocket_failures)),
                           "wait_raise")
          ELSE IF SocketAccepts(v)
          THEN ReturnResponse(WEBSOCKET_API, v)
          ELSE FallThrough(2, WEBSOCKET_API, SameCounters,
                           IF v.kind = "none" THEN "wait_timeout" ELSE "wait_empty")
    /\ UNCHANGED <<method, direct_client, ws_client, ws_state, browser_client,
                   browser_initialized, total_api_calls, auth_data, tokens>>
    /\ UNCHANGED writes
    /\ UNCHANGED <<start, attempted, f0, succ0, prev_failed>>
    /\ UNCHANGED chunkVars
    /\ NotClose

\* the bundle is kept by the router and never handed to the token manager
StoreAuthNoStore(a, at) ==
    /\ auth_data' = IF a # None THEN a ELSE auth_data
    /\ tokens' = tokens
    /\ writes' = IF a # None /\ "store" \in recording
               THEN Append(writes, [at |-> at, b |-> a]) ELSE writes

\* "if auth_data: self.auth_data = auth_data; token_manager.store_user_tokens(...)"
StoreAuth(a, at) ==
    /\ auth_data' = IF a # None THEN a ELSE auth_data
    /\ tokens' = IF a # None THEN a ELSE tokens
    /\ writes' = IF a # None /\ "store" \in recording
               THEN Append(writes, [at |-> at, b |-> a]) ELSE writes

\* a store that does not depend on how start() ended
StoresAlways(o) == TRUE

\* "if initialized:" of _init_browser, under which the bundle is extracted
\* and stored
StoresAfterStart(o) == o = "ok"

\* block 3, "initialized = await self._init_browser()" and the raise after it
BrowserInit ==
    /\ pc = "browser_init"
    /\ attempted' = Append(attempted, BROWSER_AUTOMATION)
    /\ IF browser_client # None /\ browser_initialized
       THEN /\ pc' = "browser_send"
            /\ UNCHANGED <<browser_client, browser_initialized, auth_data, tokens, writes,
                           direct_api_failures, websocket_failures,
                           browser_failures, local_method, last_method_used,
                           result, obs, escaped, result_by, successful_api_calls, succeeded>>
       ELSE \E o \in BrowserStartOutcomes :
              /\ browser_client' = Client
              /\ IF StoresAfterStart(o)
                 THEN \E a \in ExtractOutcomes : StoreAuth(a, "init")
                 ELSE UNCHANGED <<auth_data, tokens, writes>>
              /\ IF o = "ok"
                 THEN /\ browser_initialized' = TRUE
                      /\ pc' = "browser_send"
                      /\ UNCHANGED <<direct_api_failures, websocket_failures,
                                     browser_failures, local_method, last_method_used,
                                     result, obs, escaped, result_by, successful_api_calls, succeeded>>
                 ELSE /\ browser_initialized' = FALSE
                      /\ ReturnError(BROWSER_AUTOMATION,
                                     SetCounter(BROWSER_AUTOMATION, InitFailCount(browser_failures)),
                                     InitBrowserFailed, "init_false")
    /\ UNCHANGED <<method, direct_client, ws_client, ws_state, total_api_calls>>
    /\ UNCHANGED <<start, f0, succ0, prev_failed>>
    /\ UNCHANGED chunkVars
    /\ NotClose

\* block 3, "response = await self.browser_client.send_message(text)" to the end
BrowserSend ==
    /\ pc = "browser_send"
    /\ IF browser_client = None
       THEN /\ ReturnError(BROWSER_AUTOMATION, SameCounters, NoneTypeError, "send_raise")
            /\ UNCHANGED <<auth_data, tokens, writes>>
       ELSE \E v \in BrowserSendOutcomes :
              IF BrowserAccepts(v)
              THEN /\ ReturnResponse(BROWSER_AUTOMATION, v)
                   /\ \E a \in ExtractOutcomes : StoreAuth(a, "response")
              ELSE /\ ReturnError(BROWSER_AUTOMATION,
                                  SetCounter(BROWSER_AUTOMATION, BrowserFailCount(browser_failures)),
                                  BrowserFailed(v.text), "rejected")
                   /\ UNCHANGED <<auth_data, tokens, writes>>
    /\ UNCHANGED <<method, direct_client, ws_client, ws_state, browser_client,
                   browser_initialized, total_api_calls>>
    /\ UNCHANGED <<start, attempted, f0, succ0, prev_failed>>
    /\ UNCHANGED chunkVars
    /\ NotClose

\* ------------------------------------------------------------- environment
\* the listener of the WebSocket client sees the connection go away
WsDrop ==
    /\ ws_client # None
    /\ ws_state = "CONNECTED"
    /\ ws_state' \in {"NO_CONNECTION", "ERROR"}
    /\ UNCHANGED <<method, direct_client, ws_client, browser_client,
                   browser_initialized, last_method_used, direct_api_failures,
                   websocket_failures, browser_failures, successful_api_calls,
                   total_api_calls, auth_data, tokens>>
    /\ UNCHANGED <<callVars, histVars>>
    /\ UNCHANGED chunkVars
    /\ NotClose

\* ------------------------------------------------------------------- close
\* asyncio.gather(*tasks) raised and no "except Exception" around it
GatherEscapes(raised) == raised

\* "try: await asyncio.gather(*tasks) except Exception": a close() of a
\* transport that raised is logged, nothing leaves HybridRouter.close
GatherCaught(raised) == FALSE

\* the references close() leaves behind (lines 370-372)
ClearedRefs == [direct |-> None, ws |-> None, browser |-> None]

\* ReplitDirectAPIClient.close awaits its listener task and lets anything but
\* CancelledError through; the other two transports catch what close() raises
CloseOutcomes == IF direct_client # None THEN {TRUE, FALSE} ELSE {FALSE}

Close ==
    /\ \E raised \in CloseOutcomes : close_escaped' = GatherCaught(raised)
    /\ direct_client' = ClearedRefs.direct
    /\ ws_client' = ClearedRefs.ws
    /\ ws_state' = "DISCONNECTED"
    /\ browser_client' = ClearedRefs.browser
    /\ browser_initialized' = FALSE
    /\ just_closed' = TRUE
    /\ ws_requests' = {}
    /\ UNCHANGED heard
    /\ UNCHANGED <<method, last_method_used, direct_api_failures,
                   websocket_failures, browser_failures, successful_api_calls,
                   total_api_calls, auth_data, tokens>>
    /\ UNCHANGED <<callVars, histVars, sockVars, tmVars, bundleVars>>

Next ==
    \/ SendMessage
    \/ DirectInit
    \/ DirectSend
    \/ DirectWait
    \/ WsInit
    \/ WsSend
    \/ WsWait
    \/ BrowserInit
    \/ BrowserSend
    \/ WsDrop
    \/ Close

Spec == Init /\ [][Next]_vars

SpecStore == InitStore /\ [][Next]_vars

SpecLifetime == InitLifetime /\ [][Next]_vars

\* a router in AUTO mode constructed without stored credentials
InitAuto ==
    /\ InitRouter
    /\ TmIdle
    /\ BundleIdle
    /\ method = AUTO
    /\ tokens = None
    /\ recording = {}
    /\ SockIdle("ws")
    /\ creds = TRUE

SpecAuto == InitAuto /\ [][Next]_vars

\* the requests whose on_update stands registered with a listener that can
\* run: the one wait_for_response of the direct client waits for, and every
\* one in the handlers of a connected WebSocket client
Streaming ==
    (IF pc = "direct_wait" /\ direct_client # None
     THEN {[by |-> DIRECT_API, of |-> "current"]} ELSE {})
    \cup (IF ws_client # None /\ ws_state = "CONNECTED"
          THEN {[by |-> WEBSOCKET_API, of |-> n] : n \in ws_requests} ELSE {})

\* while send_message is suspended in an await a listener takes a chunk from
\* its socket and awaits update_callback, which awaits the caller's on_update
OnUpdate ==
    /\ ChunkHistory
    /\ pc \notin {"idle", "done"}
    /\ \E src \in Streaming : heard' = heard \cup {src}
    /\ UNCHANGED <<routerVars, callVars, histVars, closeVars, ws_requests,
                   sockVars, tmVars, bundleVars>>

\* a router in AUTO mode without stored credentials, called with an
\* on_update, the chunks it is handed written down
InitChunks ==
    /\ InitRouter
    /\ TmIdle
    /\ BundleIdle
    /\ method = AUTO
    /\ tokens = None
    /\ recording = {"chunks"}
    /\ SockIdle("ws")
    /\ creds = TRUE

NextChunks ==
    \/ Next
    \/ OnUpdate

SpecChunks == InitChunks /\ [][NextChunks]_vars

\* ====================================================== socket transports
Texts == {"t1", "t2"}
Chunks == {"a", "b"}

\* hash(text) % 10000
Hash(text) == IF text = "t1" THEN 1 ELSE 2

\* f"msg_{int(time.time() * 1000)}_{hash(text) % 10000}"
MessageId(ms, text) == <<"msg", ms, Hash(text)>>

\* utils.generate_uuid(): the n-th value it hands out
Uuid(n) == <<"uuid", n>>

\* an id the transport never registered
StrayId == <<"stray">>

\* d[k] = v, and "del d[k]", on a dict
Put(d, k, v) == [x \in (DOMAIN d) \cup {k} |-> IF x = k THEN v ELSE d[x]]
Del(d, k) == [x \in (DOMAIN d) \ {k} |-> d[x]]

\* the full history of the transport is kept (SpecSock)
SockHistory == "sock" \in recording
\* only the chunks of each id are kept (SpecStream)
StreamHistory == "stream" \in recording

\* what the three registries hold for id r
Entry(r) ==
    [response |-> IF r \in DOMAIN responses THEN <<responses[r]>> ELSE <<>>,
     handler  |-> IF r \in DOMAIN handlers THEN <<handlers[r]>> ELSE <<>>,
     callback |-> IF r \in DOMAIN message_callbacks
                  THEN <<message_callbacks[r]>> ELSE <<>>]

\* a callback of request req, registered under id r, is invoked with content c
Invoked(r, req, cb, c) ==
    [id |-> r, req |-> req, cb |-> cb, content |-> c, late |-> r \in timed_out,
     seen |-> IF SockHistory THEN Len(recv_log) + 1 ELSE 0]

\* a message the listener took from the socket for an id that stands
\* registered: its kind ("chunk" for agentResponse / agent:stream, "final"
\* for agentResponseComplete / agent:response), the id it names, the content
\* the code reads from it (an agentResponseComplete is read for its id only),
\* and whether an update callback stood registered under that id
Message(kind, r, c, cb) == [kind |-> kind, id |-> r, content |-> c, cb |-> cb]

\* a listener that drops a chunk equal to the one before it
DeliverDistinct(log, e) ==
    IF Len(log) > 0 /\ log[Len(log)] = e THEN log ELSE Append(log, e)

\* "await callback(content)": the invocation joins those made so far
Deliver(log, e) == Append(log, e)

\* the callbacks invoked so far, with one more
Calls(e) == IF SockHistory THEN Deliver(cb_log, e) ELSE cb_log

NoChunks == [got |-> <<>>, told |-> <<>>]
ChunksOf(s, r) == IF r \in DOMAIN s THEN s[r] ELSE NoChunks
\* a chunk c arrives for id r while an update callback is registered under r
Got(s, r, c) == Put(s, r, [ChunksOf(s, r) EXCEPT !.got = Append(@, c)])
\* the update callback registered under r is awaited with c
Told(s, r, c) == Put(s, r, [ChunksOf(s, r) EXCEPT !.told = Deliver(@, c)])

\* wait_for_response(cur.id) returns
Returns(outcome, c) ==
    /\ wait_log' = IF SockHistory
                   THEN Append(wait_log, [id |-> cur.id, req |-> cur.req,
                                          outcome |-> outcome, content |-> c])
                   ELSE wait_log
    /\ caller' = "returned"

CallerFree == caller \in {"idle", "returned", "failed"}

routerIdle == <<routerVars, callVars, histVars, closeVars, chunkVars, tmVars,
                bundleVars>>

\* the clock moves on by a millisecond
Tick ==
    /\ now < MaxClock
    /\ now' = now + 1
    /\ UNCHANGED <<transport, responses, handlers, message_callbacks, future,
                   caller, cur, requests, received, issued, cb_log, wait_log,
                   timed_out, at_timeout, recv_log, reg_log, stream>>
    /\ UNCHANGED <<routerIdle, connVars>>

\* ------------------------------------------------- ReplitWebSocketClient
\* send_message up to "await self.connect()" / "await self.ws.send(...)"
WsRegister ==
    /\ transport = "ws"
    /\ CallerFree
    /\ requests < MaxReqs
    /\ \E text \in Texts, cbs \in BOOLEAN :
          LET id == MessageId(now, text)
          IN  /\ responses' = Put(responses, id, [content |-> <<>>, complete |-> FALSE])
              /\ handlers' = IF cbs
                             THEN Put(handlers, id, [on_update |-> TRUE,
                                                     on_complete |-> TRUE,
                                                     req |-> requests + 1])
                             ELSE handlers
              /\ cur' = [id |-> id, req |-> requests + 1]
              /\ issued' = issued \cup {id}
              /\ reg_log' = IF SockHistory THEN Append(reg_log, id) ELSE reg_log
              /\ timed_out' = timed_out \ {id}
              /\ at_timeout' = Del(at_timeout, id)
    /\ requests' = requests + 1
    /\ caller' = "transmitting"
    /\ UNCHANGED <<transport, message_callbacks, future, now, received, cb_log,
                   wait_log, recv_log, stream>>
    /\ UNCHANGED <<routerIdle, connVars>>

\* the rest of send_message: the id, or None when connect() failed or
\* ws.send raised; the registries are not touched again
WsTransmit ==
    /\ transport = "ws"
    /\ caller = "transmitting"
    /\ \E o \in WsSendOutcomes : caller' = IF o = "id" THEN "sent" ELSE "failed"
    /\ UNCHANGED <<transport, responses, handlers, message_callbacks, future, now,
                   cur, requests, received, issued, cb_log, wait_log,
                   timed_out, at_timeout, recv_log, reg_log, stream>>
    /\ UNCHANGED <<routerIdle, connVars>>

\* wait_for_response: the polling loop ends with the content once the entry
\* is complete, and with None when the timeout passes first
WsWaitReturn ==
    /\ transport = "ws"
    /\ caller = "sent"
    /\ IF cur.id \notin DOMAIN responses
       THEN /\ Returns("unknown", <<>>)
            /\ UNCHANGED <<timed_out, at_timeout>>
       ELSE IF responses[cur.id].complete
       THEN /\ Returns("response", responses[cur.id].content)
            /\ UNCHANGED <<timed_out, at_timeout>>
       ELSE /\ Returns("timeout", <<>>)
            /\ IF SockHistory
               THEN /\ timed_out' = timed_out \cup {cur.id}
                    /\ at_timeout' = Put(at_timeout, cur.id, Entry(cur.id))
               ELSE UNCHANGED <<timed_out, at_timeout>>
    /\ UNCHANGED <<transport, responses, handlers, message_callbacks, future, now,
                   cur, requests, received, issued, cb_log, recv_log, reg_log, stream>>
    /\ UNCHANGED <<routerIdle, connVars>>

\* _process_messages: one message taken from the socket
WsListener ==
    /\ transport = "ws"
    /\ received < MaxMsgs
    /\ received' = received + 1
    /\ \E type \in {"agentResponse", "agentResponseComplete"},
          r \in issued \cup {StrayId}, c \in Chunks :
          /\ recv_log' =
                 IF ~SockHistory \/ r \notin DOMAIN responses THEN recv_log
                 ELSE IF type = "agentResponse"
                 THEN Append(recv_log, Message("chunk", r, <<c>>,
                                 r \in DOMAIN handlers /\ handlers[r].on_update))
                 ELSE Append(recv_log, Message("final", r, <<>>, FALSE))
          /\ stream' =
                 IF ~StreamHistory \/ type # "agentResponse" THEN stream
                 ELSE LET got == IF r \in DOMAIN handlers /\ handlers[r].on_update
                                 THEN Got(stream, r, c) ELSE stream
                      IN  IF /\ r \in DOMAIN responses
                             /\ r \in DOMAIN handlers
                             /\ handlers[r].on_update
                          THEN Told(got, r, c) ELSE got
          /\ IF r \notin DOMAIN responses
             THEN UNCHANGED <<responses, cb_log>>
             ELSE IF type = "agentResponse"
             THEN /\ responses' = [responses EXCEPT ![r].content = @ \o <<c>>]
                  /\ cb_log' = IF r \in DOMAIN handlers /\ handlers[r].on_update
                               THEN Calls(Invoked(r, handlers[r].req, "update", <<c>>))
                               ELSE cb_log
             ELSE /\ responses' = [responses EXCEPT ![r].complete = TRUE]
                  /\ cb_log' = IF r \in DOMAIN handlers /\ handlers[r].on_complete
                               THEN Calls(Invoked(r, handlers[r].req, "complete",
                                                           responses[r].content))
                               ELSE cb_log
    /\ UNCHANGED <<transport, handlers, message_callbacks, future, now, caller, cur,
                   requests, issued, wait_log, timed_out, at_timeout, reg_log>>
    /\ UNCHANGED <<routerIdle, connVars>>

\* ------------------------------------------------- ReplitDirectAPIClient
\* send_message up to "await self.ws.send(...)"; the implicit connect may
\* raise before anything is registered
DirectRegister ==
    /\ transport = "direct"
    /\ CallerFree
    /\ requests < MaxReqs
    /\ \E cbs \in BOOLEAN, o \in {"ok", "raise"} :
          IF o = "raise"
          THEN /\ caller' = "failed"
               /\ cur' = NoRequest
               /\ UNCHANGED <<message_callbacks, issued, reg_log>>
          ELSE LET id == Uuid(requests + 1)
               IN  /\ message_callbacks' =
                         Put(message_callbacks, id,
                             [on_update |-> cbs, on_complete |-> cbs,
                              wrapped |-> FALSE, req |-> requests + 1])
                   /\ cur' = [id |-> id, req |-> requests + 1]
                   /\ issued' = issued \cup {id}
                   /\ reg_log' = IF SockHistory THEN Append(reg_log, id) ELSE reg_log
                   /\ caller' = "transmitting"
    /\ requests' = requests + 1
    /\ UNCHANGED <<transport, responses, handlers, future, now, received, cb_log,
                   wait_log, timed_out, at_timeout, recv_log, stream>>
    /\ UNCHANGED <<routerIdle, connVars>>

\* the rest of send_message: the id, or the exception of ws.send after
\* "del self.message_callbacks[message_id]"
DirectTransmit ==
    /\ transport = "direct"
    /\ caller = "transmitting"
    /\ \E o \in DirectSendOutcomes :
          IF o = "id"
          THEN /\ caller' = "sent"
               /\ UNCHANGED message_callbacks
          ELSE /\ caller' = "failed"
               /\ message_callbacks' = Del(message_callbacks, cur.id)
    /\ UNCHANGED <<transport, responses, handlers, future, now, cur, requests,
                   received, issued, cb_log, wait_log, timed_out, at_timeout,
                   recv_log, reg_log, stream>>
    /\ UNCHANGED <<routerIdle, connVars>>

\* wait_for_response up to "await asyncio.wait_for(response_future, ...)"
DirectWaitBegin ==
    /\ transport = "direct"
    /\ caller = "sent"
    /\ IF cur.id \notin DOMAIN message_callbacks
       THEN /\ Returns("unknown", <<>>)
            /\ UNCHANGED <<message_callbacks, future>>
       ELSE /\ message_callbacks' = [message_callbacks EXCEPT ![cur.id].wrapped = TRUE]
            /\ future' = [waiting |-> TRUE, done |-> FALSE, content |-> <<>>]
            /\ caller' = "waiting"
            /\ UNCHANGED wait_log
    /\ UNCHANGED <<transport, responses, handlers, now, cur, requests, received,
                   issued, cb_log, timed_out, at_timeout, recv_log, reg_log, stream>>
    /\ UNCHANGED <<routerIdle, connVars>>

\* the await ends with the future's result or with the timeout; "finally"
\* deletes the entry
DirectWaitReturn ==
    /\ transport = "direct"
    /\ caller = "waiting"
    /\ message_callbacks' = Del(message_callbacks, cur.id)
    /\ future' = NoFuture
    /\ IF future.done
       THEN /\ Returns("response", future.content)
            /\ UNCHANGED <<timed_out, at_timeout>>
       ELSE /\ Returns("timeout", <<>>)
            /\ IF SockHistory
               THEN /\ timed_out' = timed_out \cup {cur.id}
                    /\ at_timeout' = Put(at_timeout, cur.id,
                                         [response |-> <<>>, handler |-> <<>>,
                                          callback |-> <<>>])
               ELSE UNCHANGED <<timed_out, at_timeout>>
    /\ UNCHANGED <<transport, responses, handlers, now, cur, requests, received,
                   issued, cb_log, recv_log, reg_log, stream>>
    /\ UNCHANGED <<routerIdle, connVars>>

\* _process_messages: one message taken from the socket
DirectListener ==
    /\ transport = "direct"
    /\ received < MaxMsgs
    /\ received' = received + 1
    /\ \E type \in {"agent:stream", "agent:response"},
          r \in issued \cup {StrayId}, c \in Chunks :
          /\ recv_log' =
                 IF ~SockHistory \/ r \notin DOMAIN message_callbacks THEN recv_log
                 ELSE IF type = "agent:stream"
                 THEN Append(recv_log, Message("chunk", r, <<c>>,
                                 message_callbacks[r].on_update))
                 ELSE Append(recv_log, Message("final", r, <<c>>, FALSE))
          /\ stream' =
                 IF ~StreamHistory \/ type # "agent:stream" THEN stream
                 ELSE LET got == IF /\ r \in DOMAIN message_callbacks
                                    /\ message_callbacks[r].on_update
                                 THEN Got(stream, r, c) ELSE stream
                      IN  IF /\ r \in DOMAIN message_callbacks
                             /\ message_callbacks[r].on_update
                          THEN Told(got, r, c) ELSE got
          /\ IF r \notin DOMAIN message_callbacks
             THEN UNCHANGED <<message_callbacks, future, cb_log>>
             ELSE LET cbk == message_callbacks[r]
                  IN  IF type = "agent:stream" /\ cbk.on_update
                      THEN /\ cb_log' = Calls(Invoked(r, cbk.req, "update", <<c>>))
                           /\ UNCHANGED <<message_callbacks, future>>
                      ELSE IF type = "agent:response" /\ (cbk.on_complete \/ cbk.wrapped)
                      THEN /\ cb_log' = IF cbk.on_complete
                                        THEN Calls(Invoked(r, cbk.req, "complete", <<c>>))
                                        ELSE cb_log
                           /\ future' = IF cbk.wrapped
                                        THEN [waiting |-> TRUE, done |-> TRUE, content |-> <<c>>]
                                        ELSE future
                           /\ message_callbacks' = Del(message_callbacks, r)
                      ELSE UNCHANGED <<message_callbacks, future, cb_log>>
    /\ UNCHANGED <<transport, responses, handlers, now, caller, cur, requests,
                   issued, wait_log, timed_out, at_timeout, reg_log>>
    /\ UNCHANGED <<routerIdle, connVars>>

NextSock ==
    \/ Tick
    \/ WsRegister
    \/ WsTransmit
    \/ WsWaitReturn
    \/ WsListener
    \/ DirectRegister
    \/ DirectTransmit
    \/ DirectWaitBegin
    \/ DirectWaitReturn
    \/ DirectListener

SpecSock == InitSock /\ [][NextSock]_vars

SpecStream == InitStream /\ [][NextSock]_vars

\* ================================================= the transport's connection
\* connect, reconnect and close of the two socket transports, called by one
\* caller (process 0), and the listener tasks (processes 1, 2, ... in the
\* order of their creation), which run whenever the caller is suspended.

Min(a, b) == IF a < b THEN a ELSE b

\* a backoff that grows by the base delay with each attempt
BackoffLinear(n) == Min(backoff_time * n, max_backoff_time)

\* min(self.backoff_time * (2 ** (self.reconnect_attempts - 1)), self.max_backoff_time)
Backoff(n) == Min(backoff_time * (2 ^ (n - 1)), max_backoff_time)

\* a reconnect() that never gives up
AtMaxNever(n) == FALSE

\* self.reconnect_attempts >= self.max_reconnect_attempts
AtMax(n) == n >= max_reconnect_attempts

Procs == {0} \cup (1..Len(tasks))
At(p) == IF p = 0 THEN op.at ELSE tasks[p].at
Running == {i \in 1..Len(tasks) : tasks[i].at # "done"}

\* is_connected() of the WebSocket client; "initialized and ws" of the
\* direct client
ConnectedIn(st, init, w) ==
    IF transport = "ws" THEN st = "CONNECTED" ELSE init /\ w # 0
Connected == ConnectedIn(state, initialized, ws)

\* the caller enters connect(), reconnect() or close()
Snapshot(n) ==
    [NoCall EXCEPT !.name = n, !.pre = Connected,
                   !.socks0 = Len(socks), !.tasks0 = Len(tasks)]

\* process p is suspended in the await named a; c is the call record, ts
\* the tasks as the step leaves them
Suspend(p, a, c, ts) ==
    /\ op' = IF p = 0 THEN [op EXCEPT !.name = c.name, !.at = a] ELSE op
    /\ tasks' = IF p = 0 THEN ts ELSE [ts EXCEPT ![p].at = a]
    /\ call' = c

\* the call of process p returns v; for a listener this ends the
\* "except ConnectionClosed" branch and with it the task
Return(p, v, c, ts) ==
    /\ op' = IF p = 0 THEN NoOp ELSE op
    /\ tasks' = IF p = 0 THEN ts ELSE [ts EXCEPT ![p].at = "done"]
    /\ call' = IF p = 0
               THEN [c EXCEPT !.done = TRUE, !.ret = v, !.socks1 = Len(socks'),
                              !.tasks1 = Len(ts),
                              !.post = ConnectedIn(state', initialized', ws')]
               ELSE c

\* socket n after close() on it
Closed(n) == IF n # 0 /\ socks[n] = "open" THEN [socks EXCEPT ![n] = "closed"] ELSE socks
\* socket n after its connection broke
Broken(n) == IF n # 0 /\ socks[n] = "open" THEN [socks EXCEPT ![n] = "lost"] ELSE socks

\* --------------------------------------------------- ReplitWebSocketClient
\* connect() up to "await websockets.connect(...)"
WsConnectBody(p, c) ==
    /\ UNCHANGED <<ws, task, reconnect_attempts, initialized, connection_established,
                   creds, last_reconnect, backoffs, since_ok, reaped, heard_late>>
    /\ IF state \in {"CONNECTING", "CONNECTED"}
       THEN /\ state' = state
            /\ UNCHANGED socks
            /\ Return(p, "true", c, tasks)
       ELSE IF ~creds
       THEN /\ state' = "ERROR"
            /\ UNCHANGED socks
            /\ Return(p, "false", c, tasks)
       ELSE /\ state' = "CONNECTING"
            /\ UNCHANGED socks
            /\ Suspend(p, "open", c, tasks)

\* reconnect() up to "await asyncio.sleep(backoff)"
WsReconnectBody(p, c) ==
    /\ UNCHANGED <<ws, task, initialized, connection_established, creds, reaped,
                   heard_late>>
    /\ IF AtMax(reconnect_attempts)
       THEN /\ state' = "ERROR"
            /\ UNCHANGED socks
            /\ last_reconnect' = [k0 |-> reconnect_attempts, slept |-> FALSE,
                                  state1 |-> "ERROR", ret |-> "false"]
            /\ UNCHANGED <<reconnect_attempts, since_ok, backoffs>>
            /\ Return(p, "false", c, tasks)
       ELSE /\ reconnect_attempts' = reconnect_attempts + 1
            /\ since_ok' = since_ok + 1
            /\ state' = "BACKING_OFF"
            /\ UNCHANGED socks
            /\ backoffs' = backoffs \cup {[k |-> since_ok + 1,
                                           delay |-> Backoff(reconnect_attempts + 1)]}
            /\ last_reconnect' = [k0 |-> reconnect_attempts, slept |-> TRUE,
                                  state1 |-> "BACKING_OFF", ret |-> "pending"]
            /\ Suspend(p, "backoff", c, tasks)

WsCallConnect ==
    /\ transport = "ws"
    /\ op.name = "none"
    /\ WsConnectBody(0, Snapshot("connect"))
    /\ UNCHANGED <<transport, reqVars, routerIdle>>

WsCallReconnect ==
    /\ transport = "ws"
    /\ op.name = "none"
    /\ WsReconnectBody(0, Snapshot("reconnect"))
    /\ UNCHANGED <<transport, reqVars, routerIdle>>

\* the sleep of reconnect() is over: "return await self.connect()"
WsWake ==
    /\ transport = "ws"
    /\ \E p \in Procs : At(p) = "backoff" /\ WsConnectBody(p, call)
    /\ UNCHANGED <<transport, reqVars, routerIdle>>

\* "self.ws = await websockets.connect(...)" ends
WsOpen ==
    /\ transport = "ws"
    /\ UNCHANGED <<task, reconnect_attempts, initialized, connection_established,
                   creds, last_reconnect, backoffs, since_ok, reaped, heard_late>>
    /\ UNCHANGED <<transport, reqVars, routerIdle>>
    /\ \E p \in Procs, o \in {"ok", "raise"} :
          /\ At(p) = "open"
          /\ IF o = "ok"
             THEN /\ Len(socks) < MaxSocks
                  /\ socks' = Append(socks, "open")
                  /\ ws' = Len(socks) + 1
                  /\ state' = "HANDSHAKING"
                  /\ Suspend(p, "handshake", call, tasks)
             ELSE /\ state' = "NO_CONNECTION"
                  /\ UNCHANGED <<socks, ws>>
                  /\ Return(p, "false", call, tasks)

\* "await self.ws.send(handshake)" ends; on success the state is CONNECTED,
\* the attempt count 0, and a listener is started unless one is running
WsHandshake ==
    /\ transport = "ws"
    /\ UNCHANGED <<initialized, connection_established, creds, last_reconnect,
                   backoffs, reaped, heard_late>>
    /\ UNCHANGED <<transport, reqVars, routerIdle>>
    /\ \E p \in Procs, o \in {"ok", "raise"} :
          /\ At(p) = "handshake"
          /\ UNCHANGED <<socks, ws>>
          /\ IF o = "ok"
             THEN LET fresh == task = 0 \/ tasks[task].at = "done"
                      ts == IF fresh
                            THEN Append(tasks, [sock |-> ws, at |-> "reading"])
                            ELSE tasks
                  IN  /\ state' = "CONNECTED"
                      /\ reconnect_attempts' = 0
                      /\ since_ok' = 0
                      /\ task' = IF fresh THEN Len(tasks) + 1 ELSE task
                      /\ Return(p, "true", call, ts)
             ELSE /\ state' = "NO_CONNECTION"
                  /\ UNCHANGED <<reconnect_attempts, since_ok, task>>
                  /\ Return(p, "false", call, tasks)

\* _process_messages: one message of the socket is processed
WsRead ==
    /\ transport = "ws"
    /\ \E i \in 1..Len(tasks) :
          /\ tasks[i].at = "reading"
          /\ socks[tasks[i].sock] = "open"
          /\ heard_late' = (heard_late \/ i \in reaped)
    /\ UNCHANGED <<state, ws, socks, tasks, task, reconnect_attempts, initialized,
                   connection_established, creds, op, call, last_reconnect,
                   backoffs, since_ok, reaped>>
    /\ UNCHANGED <<transport, reqVars, routerIdle>>

\* _process_messages: "except ConnectionClosed": NO_CONNECTION, then
\* reconnect() up to its sleep
WsLost ==
    /\ transport = "ws"
    /\ \E i \in 1..Len(tasks) :
          /\ tasks[i].at = "reading"
          /\ socks[tasks[i].sock] = "lost"
          /\ WsReconnectBody(i, call)
    /\ UNCHANGED <<transport, reqVars, routerIdle>>

\* _process_messages: the socket was closed in order, "async for" ends
WsEnds ==
    /\ transport = "ws"
    /\ \E i \in 1..Len(tasks) :
          /\ tasks[i].at = "reading"
          /\ socks[tasks[i].sock] = "closed"
          /\ tasks' = [tasks EXCEPT ![i].at = "done"]
    /\ UNCHANGED <<state, ws, socks, task, reconnect_attempts, initialized,
                   connection_established, creds, op, call, last_reconnect,
                   backoffs, since_ok, reaped, heard_late>>
    /\ UNCHANGED <<transport, reqVars, routerIdle>>

\* close() up to "await self.ws.close()"; nothing to do without a socket
WsCallClose ==
    /\ transport = "ws"
    /\ op.name = "none"
    /\ UNCHANGED <<state, socks>>
    /\ UNCHANGED <<ws, task, reconnect_attempts, initialized, connection_established,
                   creds, last_reconnect, backoffs, since_ok, reaped, heard_late>>
    /\ UNCHANGED <<transport, reqVars, routerIdle>>
    /\ IF ws = 0
       THEN Return(0, "none", Snapshot("close"), tasks)
       ELSE /\ op' = [name |-> "close", at |-> "closing", running0 |-> Running,
                      inner |-> FALSE]
            /\ call' = Snapshot("close")
            /\ UNCHANGED tasks

\* "await self.ws.close()": the socket closes, in order or not, and close()
\* resumes; or the await raises, and close() logs the error and returns
WsClosing ==
    /\ transport = "ws"
    /\ op.name = "close"
    /\ op.at = "closing"
    /\ UNCHANGED <<ws, task, reconnect_attempts, initialized, connection_established,
                   creds, last_reconnect, backoffs, since_ok, heard_late>>
    /\ UNCHANGED <<transport, reqVars, routerIdle>>
    /\ UNCHANGED state
    /\ \E o \in {"ok", "broken", "raise"} :
          /\ socks' = IF o = "ok" THEN Closed(ws) ELSE Broken(ws)
          /\ IF o = "raise"
             THEN /\ reaped' = reaped \cup op.running0
                  /\ Return(0, "none", call, tasks)
             ELSE /\ op' = [op EXCEPT !.at = "resume"]
                  /\ UNCHANGED <<reaped, tasks, call>>

\* close() after the await: CLOSED, the listener is cancelled and awaited,
\* its CancelledError is passed over
WsCloseResume ==
    /\ transport = "ws"
    /\ op.name = "close"
    /\ op.at = "resume"
    /\ UNCHANGED <<ws, task, reconnect_attempts, initialized, connection_established,
                   creds, last_reconnect, backoffs, since_ok, heard_late>>
    /\ UNCHANGED <<transport, reqVars, routerIdle>>
    /\ state' = "CLOSED"
    /\ UNCHANGED socks
    /\ reaped' = reaped \cup op.running0
    /\ Return(0, "none", call,
              IF task # 0 /\ tasks[task].at # "done"
              THEN [tasks EXCEPT ![task].at = "done"] ELSE tasks)

\* the remote side ends a connection, in order or not
SockDrops ==
    /\ \E n \in 1..Len(socks), how \in {"closed", "lost"} :
          /\ socks[n] = "open"
          /\ socks' = [socks EXCEPT ![n] = how]
    /\ UNCHANGED <<state, ws, tasks, task, reconnect_attempts, initialized,
                   connection_established, creds, op, call, last_reconnect,
                   backoffs, since_ok, reaped, heard_late>>
    /\ UNCHANGED <<transport, reqVars, routerIdle>>

\* --------------------------------------------------- ReplitDirectAPIClient
\* close() begins, called by the user or by connect() on its failure
BeginClose(inner, c) ==
    /\ op' = [name |-> c.name, at |-> "cancel", running0 |-> Running, inner |-> inner]
    /\ call' = c

\* connect() up to "await websockets.connect(...)"; without auth data and
\* without a usable cookies file it raises
DirectCallConnect ==
    /\ transport = "direct"
    /\ op.name = "none"
    /\ UNCHANGED <<state, socks, ws, initialized>>
    /\ UNCHANGED <<task, reconnect_attempts, connection_established, creds,
                   last_reconnect, backoffs, since_ok, reaped, heard_late>>
    /\ UNCHANGED <<transport, reqVars, routerIdle>>
    /\ IF creds
       THEN Suspend(0, "open", Snapshot("connect"), tasks)
       ELSE Return(0, "raise", Snapshot("connect"), tasks)

\* "self.ws = await websockets.connect(...)" ends: the listener is started;
\* on an exception close() is called
DirectOpen ==
    /\ transport = "direct"
    /\ op.name = "connect"
    /\ op.at = "open"
    /\ \E o \in {"ok", "raise"} :
          IF o = "ok"
          THEN /\ Len(socks) < MaxSocks
               /\ socks' = Append(socks, "open")
               /\ ws' = Len(socks) + 1
               /\ task' = Len(tasks) + 1
               /\ Suspend(0, "established", call,
                          Append(tasks, [sock |-> Len(socks) + 1, at |-> "reading"]))
          ELSE /\ BeginClose(TRUE, call)
               /\ UNCHANGED <<socks, ws, task, tasks>>
    /\ UNCHANGED <<state, reconnect_attempts, initialized, connection_established,
                   creds, last_reconnect, backoffs, since_ok, reaped, heard_late>>
    /\ UNCHANGED <<transport, reqVars, routerIdle>>

\* "await asyncio.wait_for(self.connection_established.wait(), timeout=15)"
\* ends: with the event set, or with the timeout and close()
DirectEstablished ==
    /\ transport = "direct"
    /\ op.name = "connect"
    /\ op.at = "established"
    /\ UNCHANGED <<state, socks, ws>>
    /\ UNCHANGED <<task, reconnect_attempts, connection_established, creds,
                   last_reconnect, backoffs, since_ok, reaped, heard_late>>
    /\ UNCHANGED <<transport, reqVars, routerIdle>>
    /\ IF connection_established
       THEN /\ initialized' = TRUE
            /\ Return(0, "true", call, tasks)
       ELSE /\ BeginClose(TRUE, call)
            /\ UNCHANGED <<initialized, tasks>>

DirectCallClose ==
    /\ transport = "direct"
    /\ op.name = "none"
    /\ BeginClose(FALSE, Snapshot("close"))
    /\ UNCHANGED <<state, ws, socks, tasks, task, reconnect_attempts, initialized,
                   connection_established, creds, last_reconnect, backoffs,
                   since_ok, reaped, heard_late>>
    /\ UNCHANGED <<transport, reqVars, routerIdle>>

\* close(): self.message_task is cancelled and awaited; the task's "finally"
\* clears initialized and the event
DirectCloseCancel ==
    /\ transport = "direct"
    /\ op.at = "cancel"
    /\ op' = [op EXCEPT !.at = "close_ws"]
    /\ IF task # 0 /\ tasks[task].at # "done"
       THEN /\ tasks' = [tasks EXCEPT ![task].at = "done"]
            /\ initialized' = FALSE
            /\ connection_established' = FALSE
       ELSE UNCHANGED <<tasks, initialized, connection_established>>
    /\ UNCHANGED <<state, ws, socks, task, reconnect_attempts, creds, call,
                   last_reconnect, backoffs, since_ok, reaped, heard_late>>
    /\ UNCHANGED <<transport, reqVars, routerIdle>>

\* close(): the socket is closed and forgotten; close() returns, and with
\* it the connect() that called it returns False
DirectCloseSock ==
    /\ transport = "direct"
    /\ op.at = "close_ws"
    /\ UNCHANGED <<task, reconnect_attempts, creds, last_reconnect, backoffs,
                   since_ok, heard_late>>
    /\ UNCHANGED <<transport, reqVars, routerIdle>>
    /\ UNCHANGED state
    /\ socks' = Closed(ws)
    /\ ws' = 0
    /\ initialized' = FALSE
    /\ connection_established' = FALSE
    /\ reaped' = reaped \cup op.running0
    /\ Return(0, IF op.inner THEN "false" ELSE "none", call, tasks)

\* _process_messages: a message is processed; 'connection:established' sets
\* the event
DirectRead ==
    /\ transport = "direct"
    /\ \E i \in 1..Len(tasks), type \in {"connection:established", "other"} :
          /\ tasks[i].at = "reading"
          /\ socks[tasks[i].sock] = "open"
          /\ connection_established' =
                 (connection_established \/ type = "connection:established")
          /\ heard_late' = (heard_late \/ i \in reaped)
    /\ UNCHANGED <<state, ws, socks, tasks, task, reconnect_attempts, initialized,
                   creds, op, call, last_reconnect, backoffs, since_ok, reaped>>
    /\ UNCHANGED <<transport, reqVars, routerIdle>>

\* _process_messages: the socket is gone, "finally" runs
DirectEnds ==
    /\ transport = "direct"
    /\ \E i \in 1..Len(tasks) :
          /\ tasks[i].at = "reading"
          /\ socks[tasks[i].sock] # "open"
          /\ tasks' = [tasks EXCEPT ![i].at = "done"]
    /\ initialized' = FALSE
    /\ connection_established' = FALSE
    /\ UNCHANGED <<state, ws, socks, task, reconnect_attempts, creds, op, call,
                   last_reconnect, backoffs, since_ok, reaped, heard_late>>
    /\ UNCHANGED <<transport, reqVars, routerIdle>>

\* either socket transport, with or without what connect() needs
InitConn ==
    /\ InitRouter
    /\ TmIdle
    /\ BundleIdle
    /\ method = AUTO
    /\ tokens = None
    /\ recording = {}
    /\ \E tr \in {"ws", "direct"}, cr \in BOOLEAN :
          /\ SockIdle(tr)
          /\ creds = cr

NextConn ==
    \/ WsCallConnect
    \/ WsCallReconnect
    \/ WsWake
    \/ WsOpen
    \/ WsHandshake
    \/ WsRead
    \/ WsLost
    \/ WsEnds
    \/ WsCallClose
    \/ WsClosing
    \/ WsCloseResume
    \/ SockDrops
    \/ DirectCallConnect
    \/ DirectOpen
    \/ DirectEstablished
    \/ DirectCallClose
    \/ DirectCloseCancel
    \/ DirectCloseSock
    \/ DirectRead
    \/ DirectEnds

SpecConn == InitConn /\ [][NextConn]_vars

\* what the event loop and the network bring about without a further call:
\* a sleep ends, an awaited connect, send or close ends, a listener whose
\* socket is gone is resumed
ConnFairness ==
    /\ WF_vars(WsWake)
    /\ WF_vars(WsOpen)
    /\ WF_vars(WsHandshake)
    /\ WF_vars(WsLost)
    /\ WF_vars(WsEnds)
    /\ WF_vars(WsClosing)
    /\ WF_vars(WsCloseResume)
    /\ WF_vars(DirectOpen)
    /\ WF_vars(DirectEstablished)
    /\ WF_vars(DirectCloseCancel)
    /\ WF_vars(DirectCloseSock)
    /\ WF_vars(DirectEnds)

SpecConnFair == SpecConn /\ ConnFairness

\* ============================================================ TokenManager
\* src/auth/token_manager.py: one TokenManager, its file tokens.enc, and a
\* second TokenManager constructed later on the same directory with the same
\* key.  Time is counted in ticks of half a second, so that int(time.time())
\* is not the time itself.

Users == {"u1", "u2"}
\* auth data: two bundles and the empty dict
EmptyBundle == "{}"
AuthBundles == {"b1", "b2", EmptyBundle}
TicksPerSecond == 2
MaxAges == {1, 2}
Key == "k1"
OtherKey == "k0"
\* a file that is no Fernet token
Garbage == [key |-> "garbage", text |-> {}]

\* int(time.time())
Seconds(t) == t \div TicksPerSecond

\* a save that writes the entry of one user only
DumpsOne(m) == IF DOMAIN m = {} THEN {}
               ELSE LET u == CHOOSE x \in DOMAIN m : TRUE
                    IN  {[user |-> u, data |-> m[u].data, stored_at |-> m[u].stored_at]}
\* json.dumps of the mapping: one member per user id
Dumps(m) == {[user |-> u, data |-> m[u].data, stored_at |-> m[u].stored_at] :
                u \in DOMAIN m}
\* json.loads
Loads(s) == [u \in {e.user : e \in s} |->
                LET e == CHOOSE x \in s : x.user = u
                IN  [data |-> e.data, stored_at |-> e.stored_at]]

\* self.cipher.encrypt / decrypt: a token opens with the key that made it
Encrypt(k, text) == [key |-> k, text |-> text]
CanDecrypt(k, blob) == blob.key = k

\* load_tokens: no file, or a file that does not decrypt, leaves {}
LoadTokens(k, blob) == IF CanDecrypt(k, blob) THEN Loads(blob.text) ELSE <<>>

\* save_tokens, when nothing raises
Saved(k, m) == Encrypt(k, Dumps(m))

\* get_user_tokens that takes empty auth data for no auth data
GetUserTokensData(m, u) ==
    IF u \notin DOMAIN m \/ m[u].data = EmptyBundle THEN None ELSE m[u].data

\* get_user_tokens: None without an entry, else the entry's data
GetUserTokens(m, u) == IF u \notin DOMAIN m THEN None ELSE m[u].data

\* is_token_valid that still accepts the age max_age itself
IsTokenValidInclusive(m, u, max_age, t) ==
    u \in DOMAIN m /\ (Seconds(t) - m[u].stored_at) <= max_age

\* is_token_valid at tick t
IsTokenValid(m, u, max_age, t) ==
    u \in DOMAIN m /\ (Seconds(t) - m[u].stored_at) < max_age

allButTm == <<routerVars, callVars, histVars, closeVars, chunkVars, sockVars,
              bundleVars>>

\* what a save_tokens that raised may leave: the file as it was, or a file
\* opened for writing and not written
AfterFailedSave == {tokens_file, Garbage}

TmTick ==
    /\ clock < MaxTicks
    /\ clock' = clock + 1
    /\ UNCHANGED <<user_tokens, tokens_file, second, stored_tick, last>>
    /\ UNCHANGED allButTm

\* store_user_tokens(u, b)
StoreUserTokens ==
    /\ \E u \in Users, b \in AuthBundles, saved \in BOOLEAN :
          /\ user_tokens' = Put(user_tokens, u,
                                [data |-> b, stored_at |-> Seconds(clock)])
          /\ stored_tick' = Put(stored_tick, u, clock)
          /\ IF saved
             THEN tokens_file' = Saved(Key, user_tokens')
             ELSE tokens_file' \in AfterFailedSave
          /\ last' = [op |-> "store", user |-> u, data |-> b, ok |-> saved,
                      before |-> user_tokens]
    /\ second' = {}
    /\ UNCHANGED clock
    /\ UNCHANGED allButTm

\* delete_user_tokens(u)
DeleteUserTokens ==
    /\ \E u \in Users, saved \in BOOLEAN :
          IF u \in DOMAIN user_tokens
          THEN /\ user_tokens' = Del(user_tokens, u)
               /\ stored_tick' = Del(stored_tick, u)
               /\ IF saved
                  THEN tokens_file' = Saved(Key, user_tokens')
                  ELSE tokens_file' \in AfterFailedSave
               /\ last' = [op |-> "delete", user |-> u, data |-> None, ok |-> saved,
                           before |-> user_tokens]
          ELSE /\ last' = [op |-> "delete", user |-> u, data |-> None, ok |-> FALSE,
                           before |-> user_tokens]
               /\ UNCHANGED <<user_tokens, stored_tick, tokens_file>>
    /\ second' = {}
    /\ UNCHANGED clock
    /\ UNCHANGED allButTm

\* TokenManager(storage_dir, encryption_key) once more: __init__ and
\* load_tokens
Construct ==
    /\ second = {}
    /\ second' = {LoadTokens(Key, tokens_file)}
    /\ UNCHANGED <<user_tokens, tokens_file, clock, stored_tick, last>>
    /\ UNCHANGED allButTm

\* the files a TokenManager may find: none, one that is no token, one made
\* with another key, one made with its key by an earlier process
FilesFound == {Absent, Garbage,
               Saved(OtherKey, [u \in {"u1"} |-> [data |-> "b1", stored_at |-> 0]]),
               Saved(Key, [u \in {"u1"} |-> [data |-> "b1", stored_at |-> 0]])}

InitTokens ==
    /\ InitRouter
    /\ method = AUTO
    /\ tokens = None
    /\ recording = {}
    /\ SockIdle("ws")
    /\ creds = TRUE
    /\ tokens_file \in FilesFound
    /\ user_tokens = LoadTokens(Key, tokens_file)
    /\ stored_tick = [u \in DOMAIN user_tokens |-> 0]
    /\ clock = 0
    /\ second = {}
    /\ last = NoMutation
    /\ BundleIdle

NextTokens ==
    \/ TmTick
    \/ StoreUserTokens
    \/ DeleteUserTokens
    \/ Construct

SpecTokens == InitTokens /\ [][NextTokens]_vars

\* ------------------------------------------------ the credential bundle
\* the one element of a set that holds one
The(S) == CHOOSE x \in S : TRUE

\* the data of a captured frame: text that is not JSON, or a JSON object
\* with or without each of the keys clientId, sessionId, tokenCluster
NotJson == [json |-> FALSE, clientId |-> {}, sessionId |-> {},
            tokenCluster |-> {}]
JsonObjects == [json : {TRUE}, clientId : {{}, {"c1"}},
                sessionId : {{}, {"s1"}}, tokenCluster : {{}, {"t1"}}]
Frames == [direction : {"outgoing", "incoming"},
           data : {NotJson} \cup JsonObjects]

\* a dict with none of the keys the two clients write or read
NoKeys == [connection_params |-> {}, websocket_data |-> <<>>,
           websocket_params |-> {}, websocket_connections |-> <<>>,
           client_id |-> "", session_id |-> ""]

\* the bundle BrowserAuth (src/auth/browser_auth.py) builds
FromBrowserAuth ==
    [NoKeys EXCEPT !.websocket_params =
        {[clientId |-> {"c0"}, sessionId |-> {"s0"}, tokenCluster |-> {}]}]

\* extract_auth_data: the parameters of the first outgoing JSON frame that
\* holds clientId and sessionId go under the key connection_params
ExtractAuthData(traffic) ==
    LET hits == {i \in 1..Len(traffic) :
                    /\ traffic[i].direction = "outgoing"
                    /\ traffic[i].data.json
                    /\ traffic[i].data.clientId # {}
                    /\ traffic[i].data.sessionId # {}}
        d == traffic[CHOOSE i \in hits : \A j \in hits : i <= j].data
    IN [NoKeys EXCEPT
          !.websocket_data = traffic,
          !.connection_params =
              IF hits = {} THEN {}
              ELSE {[clientId |-> The(d.clientId),
                     sessionId |-> The(d.sessionId),
                     tokenCluster |-> IF d.tokenCluster = {} THEN "picard"
                                      ELSE The(d.tokenCluster)]}]

\* the keys of one JSON object, written over the client's parameters
Overwrite(c, d) ==
    [c EXCEPT
       !.client_id = IF d.clientId # {} THEN The(d.clientId) ELSE @,
       !.session_id = IF d.sessionId # {} THEN The(d.sessionId) ELSE @,
       !.token_cluster = IF d.tokenCluster # {} THEN The(d.tokenCluster)
                         ELSE @]

RECURSIVE FromConnections(_, _)
FromConnections(c, conns) ==
    IF conns = <<>> THEN c
    ELSE FromConnections(IF Head(conns).json THEN Overwrite(c, Head(conns))
                         ELSE c,
                         Tail(conns))

\* _extract_connection_params: reads the keys websocket_params and
\* network_data.websocket_connections of the bundle
ExtractConnectionParams(c) ==
    LET wp == c.auth_data.websocket_params
        c1 == IF wp = {} THEN c ELSE Overwrite(c, The(wp))
    IN FromConnections(c1, c.auth_data.websocket_connections)

HasParams(c) == c.client_id # "" /\ c.session_id # ""

allButBundle == <<routerVars, callVars, histVars, closeVars, chunkVars,
                  sockVars, tmVars>>

\* the page sends or receives one more frame
Capture ==
    /\ Len(ws_traffic) < MaxFrames
    /\ \E f \in Frames : ws_traffic' = Append(ws_traffic, f)
    /\ UNCHANGED <<extracted, stored_bundle, wsclient, allButBundle>>

\* ReplitBrowserClient.extract_auth_data; within five minutes of the last
\* extraction it returns that one again, which leaves extracted as it is
BrowserExtract ==
    /\ extracted' = {ExtractAuthData(ws_traffic)}
    /\ UNCHANGED <<ws_traffic, stored_bundle, wsclient, allButBundle>>

\* HybridRouter keeps what extract_auth_data returned and stores it
KeepBundle ==
    /\ extracted # {}
    /\ stored_bundle' = extracted
    /\ UNCHANGED <<ws_traffic, extracted, wsclient, allButBundle>>

\* ReplitWebSocketClient(self.auth_data)
WsConstruct ==
    /\ LET b == IF stored_bundle = {} THEN NoKeys ELSE The(stored_bundle)
       IN wsclient' = {[auth_data |-> b, client_id |-> b.client_id,
                        session_id |-> b.session_id,
                        token_cluster |-> "picard",
                        state |-> "DISCONNECTED"]}
    /\ UNCHANGED <<ws_traffic, extracted, stored_bundle, allButBundle>>

\* connect() up to the opening of the socket
WsConnectParams ==
    /\ \E c \in wsclient :
          /\ c.state \notin {"CONNECTING", "CONNECTED"}
          /\ wsclient' =
                IF HasParams(c) THEN {[c EXCEPT !.state = "CONNECTING"]}
                ELSE LET e == ExtractConnectionParams(c)
                     IN IF HasParams(e)
                        THEN {[e EXCEPT !.state = "CONNECTING"]}
                        ELSE {[e EXCEPT !.state = "ERROR"]}
    /\ UNCHANGED <<ws_traffic, extracted, stored_bundle, allButBundle>>

InitBundle ==
    /\ InitRouter
    /\ TmIdle
    /\ method = AUTO
    /\ tokens = None
    /\ recording = {}
    /\ SockIdle("ws")
    /\ creds = TRUE
    /\ ws_traffic = <<>>
    /\ extracted = {}
    /\ stored_bundle \in {{}, {FromBrowserAuth}}
    /\ wsclient = {}

NextBundle ==
    \/ Capture
    \/ BrowserExtract
    \/ KeepBundle
    \/ WsConstruct
    \/ WsConnectParams

SpecBundle == InitBundle /\ [][NextBundle]_vars

\* ================================================================ claims
InitPc(s) ==
    IF s = DIRECT_API THEN "direct_init"
    ELSE IF s = WEBSOCKET_API THEN "ws_init" ELSE "browser_init"

WasAttempted(s) == \E i \in 1..Len(attempted) : attempted[i] = s

\* strategy s has been attempted in this call, or its block is being entered
AttemptedOrNext(s) == WasAttempted(s) \/ pc = InitPc(s)

InitFailTags == {"init_false", "init_raise"}
RaiseTags == {"send_raise", "wait_raise"}
FalsyTags == {"send_none", "wait_empty", "wait_timeout"}
Notices == {NoResponseNotice, TimeoutNotice}

\* C1: within one send_message call the strategies attempted so far are
\* exactly a run of the fixed order direct, WebSocket, browser that begins at
\* the strategy _determine_method returned: none twice, none out of order.
C1_FixedOrder ==
    \A i \in 1..Len(attempted) :
        /\ start \in Strategies
        /\ Pos(start) + i - 1 <= 3
        /\ attempted[i] = Order[Pos(start) + i - 1]

C1_Witness ==
    pc = "done" /\ attempted = Order /\ start = DIRECT_API

\* C2: a strategy whose construction/connection failed in this call has its
\* counter exactly one above its value after selection, and for the two
\* socket strategies the call moves on to the next strategy of the order.
C2_InitFailure ==
    \A s \in Strategies :
        obs[s].tag \in InitFailTags =>
            /\ Failures(s) = f0[s] + 1
            /\ s \in SocketStrategies => AttemptedOrNext(Order[Pos(s) + 1])

C2_Witness ==
    /\ pc = "done"
    /\ obs[DIRECT_API].tag = "init_raise"
    /\ obs[WEBSOCKET_API].tag = "init_false"
    /\ obs[BROWSER_AUTOMATION].tag = "init_false"

\* C3: an exception raised by send_message or wait_for_response of a socket
\* transport does not leave HybridRouter.send_message; the strategy's counter
\* is exactly one above its value after selection and the call moves on to
\* the next strategy.
C3_SocketException ==
    \A s \in SocketStrategies :
        obs[s].tag \in RaiseTags =>
            /\ ~escaped
            /\ Failures(s) = f0[s] + 1
            /\ AttemptedOrNext(Order[Pos(s) + 1])

C3_Witness ==
    /\ pc = "done"
    /\ obs[DIRECT_API].tag = "send_raise"
    /\ obs[WEBSOCKET_API].tag \in RaiseTags

\* C4 (as claimed): a socket strategy that yields no request id, an empty
\* result or a timeout has its failure counter incremented by one.
C4_FalsyCounted ==
    \A s \in SocketStrategies :
        obs[s].tag \in FalsyTags => Failures(s) = f0[s] + 1

\* C5 (as claimed): when the browser transport hands back its timeout or
\* no-response notice, the browser counter is incremented and the call
\* returns a failure, never the notice as the response.
C5_BrowserNoticeIsFailure ==
    (obs[BROWSER_AUTOMATION].tag # "none" /\ obs[BROWSER_AUTOMATION].text \in Notices) =>
        /\ browser_failures = f0[BROWSER_AUTOMATION] + 1
        /\ result_by = None
        /\ result \notin Notices

\* C6 (as claimed): after a call that returned the response of strategy S,
\* the counter of S is 0 and successful_api_calls is one more than before.
C6_SuccessAccounting ==
    (pc = "done" /\ result_by # None) =>
        /\ Failures(result_by) = 0
        /\ successful_api_calls = succ0 + 1

\* C7: once strategy S has delivered the response the call has returned, S
\* is the last strategy attempted (nothing later in the order was touched),
\* and the step that records the success changes no counter but the one of S.
C7_SuccessReturnsAtOnce ==
    /\ [](result_by # None =>
            /\ pc = "done"
            /\ attempted[Len(attempted)] = result_by
            /\ \A t \in Strategies : Pos(t) > Pos(result_by) => obs[t].tag = "none")
    /\ [][(result_by = None /\ result_by' # None) =>
            \A t \in Strategies \ {result_by'} : Failures(t)' = Failures(t)]_vars

C7_Witness ==
    /\ pc = "done"
    /\ result_by = WEBSOCKET_API
    /\ attempted = <<DIRECT_API, WEBSOCKET_API>>
    /\ direct_api_failures > 0
    /\ browser_failures > 0

\* C8: no exception ever leaves send_message; a finished call has returned
\* either the response text of the strategy that delivered it or one failure
\* description ("Error: ..." or the all-methods-failed text).
C8_NeverRaises ==
    /\ ~escaped
    /\ pc = "done" =>
          \/ result_by # None /\ result = obs[result_by].text /\ Len(result) > 0
          \/ result_by = None /\ Len(result) > 0
                /\ (result[1] = ERROR_MARK \/ result = AllFailedText)

C8_Witness ==
    /\ pc = "done"
    /\ result = ErrorString(InitBrowserFailed)
    /\ attempted = Order
    /\ obs[DIRECT_API].tag = "send_raise"

\* C9: the call that follows a call in which every strategy failed selects a
\* concrete strategy by the policy (the pinned one, or in AUTO mode one whose
\* counter is below its threshold), attempts it first, and returns that
\* strategy's response if it delivers one.
C9_UsableAfterAllFailed ==
    (prev_failed /\ pc = "done") =>
        /\ start \in Strategies
        /\ method # AUTO => start = method
        /\ method = AUTO => f0[start] < max_direct_api_failures
        /\ Len(attempted) >= 1
        /\ attempted[1] = start
        /\ obs[start].tag = "ok" => (result_by = start /\ result = obs[start].text)

C9_Witness ==
    /\ prev_failed
    /\ pc = "done"
    /\ result_by = start
    /\ result \in Responses

\* C10: on a fresh AUTO router, when the direct connect fails and the
\* WebSocket strategy delivers R, the first call returns R with the direct
\* counter at 1 and the WebSocket counter at 0.
C10_EndToEnd ==
    ( /\ method = AUTO
      /\ total_api_calls = 1
      /\ pc = "done"
      /\ obs[DIRECT_API].tag \in InitFailTags
      /\ obs[WEBSOCKET_API].tag = "ok" ) =>
        /\ ~escaped
        /\ result = obs[WEBSOCKET_API].text
        /\ result \in Responses
        /\ direct_api_failures = 1
        /\ websocket_failures = 0

C10_Witness ==
    /\ method = AUTO
    /\ total_api_calls = 1
    /\ pc = "done"
    /\ obs[DIRECT_API].tag \in InitFailTags
    /\ result_by = WEBSOCKET_API
    /\ result = <<"hello-response">>

\* C11 (as claimed): on an AUTO router whose strategies have all failed in
\* every call, the three counters all stand at the threshold N once N calls
\* have returned, and the selection of call N+1 leaves all three at 0 and
\* returns the direct strategy.
C11_BreakerReset ==
    (method = AUTO /\ succeeded = {}) =>
        /\ (pc = "done" /\ total_api_calls = max_direct_api_failures) =>
              \A s \in Strategies : Failures(s) = max_direct_api_failures
        /\ (pc # "idle" /\ total_api_calls = max_direct_api_failures + 1) =>
              /\ start = DIRECT_API
              /\ \A s \in Strategies : f0[s] = 0

\* the first strategy of the fixed order whose counter in f is below its
\* threshold; None when there is none
FirstBelow(f) ==
    IF f[DIRECT_API] < max_direct_api_failures THEN DIRECT_API
    ELSE IF f[WEBSOCKET_API] < max_websocket_failures THEN WEBSOCKET_API
    ELSE IF f[BROWSER_AUTOMATION] < max_browser_failures THEN BROWSER_AUTOMATION
    ELSE None

\* _determine_method has just returned and no block has been entered yet
JustSelected == start \in Strategies /\ pc = InitPc(start) /\ attempted = <<>>

\* C12 (as claimed): in AUTO mode a selection that differs from the first
\* strategy of the order whose counter is below threshold returns a strategy
\* that has itself delivered a response before, with its own counter below
\* its threshold.
C12_StickyOwnSuccess ==
    (method = AUTO /\ JustSelected /\ start # FirstBelow(f0)) =>
        /\ start \in succeeded
        /\ f0[start] < max_direct_api_failures

\* the three counters as they stand
Current == [s \in Strategies |-> Failures(s)]

\* the step in which a send_message call begins and selects its strategy
SelectionStep == total_api_calls' = total_api_calls + 1

\* no strategy has both delivered before and its counter below threshold
NoneQualifies ==
    \A s \in succeeded : Failures(s) >= max_direct_api_failures

\* neither of the two tests at the head of _determine_method passes
NoneSticky ==
    /\ ~(direct_client # None /\ successful_api_calls > 0
            /\ direct_api_failures < max_direct_api_failures)
    /\ ~(ws_client # None /\ successful_api_calls > 0
            /\ websocket_failures < max_websocket_failures)

\* C13: in AUTO mode, when no strategy qualifies for stickiness (none has
\* delivered before with its counter below threshold, or neither stickiness
\* test of the code passes) and some counter is below its threshold, the
\* selection returns the first strategy of the order direct, WebSocket,
\* browser whose counter is below threshold and leaves all three counters
\* as they were.
C13_PriorityOrder ==
    [][(/\ SelectionStep
        /\ method = AUTO
        /\ NoneQualifies \/ NoneSticky
        /\ FirstBelow(Current) # None) =>
            /\ start' = FirstBelow(Current)
            /\ Current' = Current]_vars

C13_Witness ==
    /\ method = AUTO
    /\ JustSelected
    /\ succeeded = {}
    /\ f0[DIRECT_API] >= max_direct_api_failures
    /\ f0[WEBSOCKET_API] >= max_websocket_failures
    /\ start = BROWSER_AUTOMATION

\* C14: on a router constructed with a pinned strategy the selection returns
\* the pinned strategy whatever the counters are and leaves all three
\* counters as they were, and the first block a call enters is the one of the
\* pinned strategy.
C14_PinnedStart ==
    /\ [](method # AUTO =>
            /\ pc # "idle" => start = method
            /\ Len(attempted) >= 1 => attempted[1] = method)
    /\ [][(SelectionStep /\ method # AUTO) =>
            /\ start' = method
            /\ pc' = InitPc(method)
            /\ Current' = Current]_vars

C14_Witness ==
    /\ method = DIRECT_API
    /\ JustSelected
    /\ start = DIRECT_API
    /\ \A s \in Strategies : f0[s] >= max_direct_api_failures

C16_StoreOnlyOnBrowserResponse ==
    (pc = "done" /\ Len(writes) > 0) => result_by = BROWSER_AUTOMATION

\* C16 (amended): a call writes to the store only after it has entered the
\* browser block with a browser that started or was running: after a fresh
\* start, whether or not a response follows, and after a response the
\* browser block accepted. A call served by a socket strategy and a call
\* whose browser start failed have written nothing.
C16_StoreOnlyAfterBrowserStart ==
    /\ \A i \in 1..Len(writes) :
          /\ WasAttempted(BROWSER_AUTOMATION)
          /\ obs[BROWSER_AUTOMATION].tag \notin InitFailTags
          /\ writes[i].at = "response" => result_by = BROWSER_AUTOMATION
    /\ result_by \in SocketStrategies => writes = <<>>
    /\ obs[BROWSER_AUTOMATION].tag \in InitFailTags => writes = <<>>

C16_Witness ==
    /\ pc = "done"
    /\ result_by = None
    /\ obs[BROWSER_AUTOMATION].tag = "rejected"
    /\ writes = << [at |-> "init", b |-> "b1"] >>
    /\ tokens = "b1"

\* C17: no exception of a transport's close() ever leaves HybridRouter.close,
\* and when close() has returned the three transport references are None, so
\* the next call finds no client to reuse.
C17_CloseClears ==
    /\ ~close_escaped
    /\ just_closed =>
          /\ direct_client = None
          /\ ws_client = None
          /\ browser_client = None
          /\ ~browser_initialized

C17_Witness ==
    /\ just_closed
    /\ pc = "done"
    /\ result_by = BROWSER_AUTOMATION
    /\ attempted = Order
    /\ obs[DIRECT_API].tag = "wait_timeout"
    /\ obs[WEBSOCKET_API].tag = "wait_timeout"

\* C18 (as claimed): once wait_for_response(r) has returned, with the
\* response or on timeout, neither socket transport holds a response,
\* handler or callback entry for r.
C18_NoEntryAfterWait ==
    caller = "returned" =>
        /\ cur.id \notin DOMAIN responses
        /\ cur.id \notin DOMAIN handlers
        /\ cur.id \notin DOMAIN message_callbacks

\* C19 (as claimed): after wait_for_response(r) has timed out, what the
\* transport stores for r is what it stored at the timeout, and no callback
\* registered for r has been invoked since.
C19_LateMessageDropped ==
    \A r \in timed_out :
        /\ Entry(r) = at_timeout[r]
        /\ \A i \in 1..Len(cb_log) : ~(cb_log[i].id = r /\ cb_log[i].late)

\* C20 (as claimed): among the callbacks invoked for one request, a
\* completion is the last one: no second completion and no update follows it.
C20_CompleteOnceAndLast ==
    \A i \in 1..Len(cb_log) : \A j \in 1..Len(cb_log) :
        (i < j /\ cb_log[i].req = cb_log[j].req) => cb_log[i].cb # "complete"

\* C21: for every request id, the chunks handed to the update callback
\* registered under it are the chunks the listener received for it while that
\* callback was registered: each one once, in the order of receipt.
C21_ChunksInOrder ==
    \A r \in DOMAIN stream : stream[r].told = stream[r].got

C21_Witness ==
    \E r \in DOMAIN stream :
        /\ stream[r].got = <<"a", "a", "b">>
        /\ stream[r].told = <<"a", "a", "b">>

\* the contents of the update callbacks invoked for request q among the first
\* n callbacks, joined in order
RECURSIVE UpdatesOf(_, _)
UpdatesOf(q, n) ==
    IF n = 0 THEN <<>>
    ELSE UpdatesOf(q, n - 1) \o
         (IF cb_log[n].req = q /\ cb_log[n].cb = "update" THEN cb_log[n].content ELSE <<>>)

\* the full text of the request completed by callback i: the chunks handed
\* to its update callback before, then the payload of the terminal message
FullText(i) == UpdatesOf(cb_log[i].req, i - 1) \o recv_log[cb_log[i].seen].content

\* C22 (as claimed): the text handed to the completion callback of a request,
\* and the text wait_for_response returns for it, is the concatenation in
\* order of receipt of the chunks handed to its update callback and of the
\* payload of the terminal message.
C22_FullTextIsConcatenation ==
    \A i \in 1..Len(cb_log) :
        cb_log[i].cb = "complete" =>
            /\ cb_log[i].content = FullText(i)
            /\ \A j \in 1..Len(wait_log) :
                  (wait_log[j].req = cb_log[i].req /\ wait_log[j].outcome = "response")
                      => wait_log[j].content = FullText(i)

\* C23 (as claimed): every send_message registers its request under an id
\* the transport has not registered before, so no two registrations share
\* an id.
C23_FreshRequestId ==
    \A i \in 1..Len(reg_log) : \A j \in 1..Len(reg_log) :
        i < j => reg_log[i] # reg_log[j]

\* C24 (as claimed): a connect() call made on a connected transport has
\* returned success, has opened no socket and started no listener task, and
\* has left the transport connected.
C24_ConnectIdempotent ==
    (call.name = "connect" /\ call.done /\ call.pre) =>
        /\ call.ret = "true"
        /\ call.socks1 = call.socks0
        /\ call.tasks1 = call.tasks0
        /\ call.post

\* C25 (as claimed): every listener task that was running when a close()
\* began has finished once that close() has returned and has processed no
\* message since, and close() has not ended with the cancellation.
C25_CloseReapsListener ==
    /\ \A i \in reaped : tasks[i].at = "done"
    /\ ~heard_late
    /\ call.name = "close" => call.ret # "cancelled"

\* C26: the reconnect attempt count of ReplitWebSocketClient never exceeds
\* max_reconnect_attempts; a reconnect() entered with the count at the
\* maximum has set the state to ERROR and returned false without sleeping
\* (and so without reaching connect()); and a transport in state CONNECTED,
\* which only a successful connect() produces, has the count at 0.
C26_ReconnectBounded ==
    /\ reconnect_attempts <= max_reconnect_attempts
    /\ last_reconnect.k0 >= max_reconnect_attempts =>
          /\ ~last_reconnect.slept
          /\ last_reconnect.state1 = "ERROR"
          /\ last_reconnect.ret = "false"
    /\ last_reconnect.k0 < max_reconnect_attempts =>
          last_reconnect.state1 \in {"none", "BACKING_OFF"}
    /\ state = "CONNECTED" => reconnect_attempts = 0

C26_Witness ==
    /\ reconnect_attempts = max_reconnect_attempts
    /\ last_reconnect.k0 = max_reconnect_attempts
    /\ state = "ERROR"
    /\ call.name = "reconnect"
    /\ call.done
    /\ call.ret = "false"
    /\ call.socks1 = call.socks0

\* C27: the delay slept before the k-th reconnect attempt since the last
\* successful connect is min(backoff_time * 2^(k-1), max_backoff_time), for
\* every k from 1 to max_reconnect_attempts: 1, 2, 4, 8 and 16 seconds.
C27_BackoffDelay ==
    /\ \A e \in backoffs :
          /\ e.k \in 1..max_reconnect_attempts
          /\ e.delay = Min(backoff_time * (2 ^ (e.k - 1)), max_backoff_time)
          /\ e.delay = <<1, 2, 4, 8, 16>>[e.k]
    /\ since_ok = reconnect_attempts

C27_Witness ==
    /\ [k |-> max_reconnect_attempts, delay |-> 16] \in backoffs
    /\ [k |-> 1, delay |-> 1] \in backoffs
    /\ Cardinality(backoffs) = max_reconnect_attempts

\* C28: store_user_tokens(u, b) followed by get_user_tokens(u) returns b, the
\* latest bundle when u was stored several times; after delete_user_tokens(u),
\* get_user_tokens(u) returns None; and neither call changes what
\* get_user_tokens returns for another user.
C28_StoreGetDelete ==
    /\ last.op = "store" => GetUserTokens(user_tokens, last.user) = last.data
    /\ last.op = "delete" => GetUserTokens(user_tokens, last.user) = None
    /\ last.op # "none" =>
          \A v \in Users \ {last.user} :
              GetUserTokens(user_tokens, v) = GetUserTokens(last.before, v)

\* u1 stored a second time with another bundle while u2 has an entry
C28_Witness ==
    /\ last.op = "store"
    /\ last.user = "u1"
    /\ last.data = "b2"
    /\ GetUserTokens(last.before, "u1") = "b1"
    /\ GetUserTokens(user_tokens, "u1") = "b2"
    /\ GetUserTokens(user_tokens, "u2") = "b1"

\* C29 as stated: is_token_valid(u, maxAge) is true exactly when u has an
\* entry and the time since its last store is less than maxAge.
C29_ValidIffYoungerThanMaxAge ==
    \A u \in Users, max_age \in MaxAges :
        IsTokenValid(user_tokens, u, max_age, clock)
            = (/\ u \in DOMAIN stored_tick
               /\ clock - stored_tick[u] < max_age * TicksPerSecond)

\* C29 amended: is_token_valid(u, maxAge) is true exactly when u has an entry
\* and the whole seconds of now minus the whole seconds of its last store are
\* less than maxAge; so it is true at the moment of the store for maxAge > 0,
\* false once the age reaches maxAge, and false for a user never stored or
\* deleted.
C29_ValidIffYoungerInWholeSeconds ==
    \A u \in Users, max_age \in MaxAges :
        LET valid == IsTokenValid(user_tokens, u, max_age, clock)
            held  == u \in DOMAIN stored_tick
        IN  /\ valid = (/\ held
                        /\ Seconds(clock) - Seconds(stored_tick[u]) < max_age)
            /\ (held /\ clock = stored_tick[u]) => valid
            /\ (held /\ clock - stored_tick[u] >= max_age * TicksPerSecond) => ~valid
            /\ ~held => ~valid

\* u1 stored half a second before a full second: invalid for maxAge 1 half a
\* second later, still valid for maxAge 2
C29_Witness ==
    /\ "u1" \in DOMAIN stored_tick
    /\ stored_tick["u1"] = 1
    /\ clock = 2
    /\ ~IsTokenValid(user_tokens, "u1", 1, clock)
    /\ IsTokenValid(user_tokens, "u1", 2, clock)

\* C30: after a successful store_user_tokens or delete_user_tokens the file
\* holds the whole in-memory mapping, and a TokenManager constructed then with
\* the same key on the same directory returns from get_user_tokens what the
\* first one returns, for every user.
C30_FileHoldsMapping ==
    (last.op # "none" /\ last.ok) =>
        /\ CanDecrypt(Key, tokens_file)
        /\ DOMAIN LoadTokens(Key, tokens_file) = DOMAIN user_tokens
        /\ \A u \in DOMAIN user_tokens :
              LoadTokens(Key, tokens_file)[u] = user_tokens[u]
        /\ \A m \in second : \A u \in Users :
              GetUserTokens(m, u) = GetUserTokens(user_tokens, u)

\* a second TokenManager constructed after a successful store, two users held
C30_Witness ==
    /\ last.op = "store"
    /\ last.ok
    /\ DOMAIN user_tokens = Users
    /\ second # {}
    /\ \A m \in second : DOMAIN m = Users /\ m["u2"].data = "b2"

\* C31: after the WebSocket transport loses its connection while its listener
\* is reading it, the transport eventually is CONNECTED or in ERROR: it does
\* not rest in NO_CONNECTION or BACKING_OFF.
ListenerLost ==
    /\ transport = "ws"
    /\ \E i \in 1..Len(tasks) :
          tasks[i].at = "reading" /\ socks[tasks[i].sock] = "lost"
C31_ReconnectsUntilConnectedOrError ==
    ListenerLost ~> (state \in {"CONNECTED", "ERROR"})

\* C32: whenever ReplitWebSocketClient is CONNECTED and neither the caller
\* nor a listener is inside connect, reconnect or close, a listener task that
\* reads the current socket is running.
C32_ConnectedHasListener ==
    (/\ transport = "ws"
     /\ state = "CONNECTED"
     /\ \A p \in Procs : At(p) \in {"none", "reading", "done"})
        => \E i \in 1..Len(tasks) : tasks[i].at = "reading" /\ tasks[i].sock = ws

\* states of ReplitWebSocketClient without a connection or an attempt at one
Unconnected == {"DISCONNECTED", "NO_CONNECTION", "BACKING_OFF", "ERROR", "CLOSED"}

\* C33: connect() of the WebSocket transport goes on to open a socket only
\* from a state without a connection; CONNECTED is entered only from
\* HANDSHAKING and HANDSHAKING only from CONNECTING; and no connect() opens a
\* socket while another connect() that opened one is still in progress.
ConnectSteps ==
    transport = "ws" =>
        /\ (state' = "CONNECTING" /\ \E p \in Procs : At(p)' = "open" /\ At(p) # "open")
              => state \in Unconnected
        /\ (state' = "CONNECTED" /\ state # "CONNECTED") => state = "HANDSHAKING"
        /\ (state' = "HANDSHAKING" /\ state # "HANDSHAKING") => state = "CONNECTING"
        /\ Len(socks') > Len(socks) => \A p \in Procs : At(p) # "handshake"
C33_ConnectOpensOnce == [][ConnectSteps]_vars

\* the listener has taken the terminal message of id r from the socket
\* while r stood registered
FinalReceived(r) ==
    \E i \in 1..Len(recv_log) : recv_log[i].kind = "final" /\ recv_log[i].id = r
\* send_message registered id r once
RegisteredOnce(r) == Cardinality({i \in 1..Len(reg_log) : reg_log[i] = r}) = 1

\* C34: if the listener received the terminal message of request r at any
\* moment after send_message registered r, be it while send_message was still
\* transmitting or before wait_for_response(r) began to wait, then
\* wait_for_response(r) returns the response and not None.
WaitReturnsReceived ==
    (/\ caller # "returned"
     /\ caller' = "returned"
     /\ RegisteredOnce(cur.id)
     /\ FinalReceived(cur.id))
        => wait_log'[Len(wait_log')].outcome = "response"
C34_EarlyResponseIsReturned == [][WaitReturnsReceived]_vars

\* C35: when send_message fails and hands no id to the caller, no entry is
\* left in the transport's registries for the request that was never sent.
C35_FailedSendLeavesNothing ==
    (caller = "failed" /\ cur # NoRequest /\ RegisteredOnce(cur.id))
        => Entry(cur.id) = [response |-> <<>>, handler |-> <<>>, callback |-> <<>>]

\* C36: every chunk the caller's on_update was handed during a send_message
\* call comes from the strategy whose response the call returned, and from
\* the request of that call.
C36_ChunksFromReturningStrategy ==
    pc = "done" => \A h \in heard : h.of = "current" /\ h.by = result_by

\* self.max_direct_api_failures, self.max_websocket_failures,
\* self.max_browser_failures
Threshold(s) ==
    IF s = DIRECT_API THEN max_direct_api_failures
    ELSE IF s = WEBSOCKET_API THEN max_websocket_failures
    ELSE max_browser_failures
\* the counter of strategy s that _determine_method leaves behind
CounterLeft(dm, s) ==
    IF s = DIRECT_API THEN dm.d ELSE IF s = WEBSOCKET_API THEN dm.w ELSE dm.b

\* C37: in AUTO mode, in every reachable state, _determine_method returns one
\* of the three strategies, and when it returns, the failure counter of that
\* strategy is below its threshold; so it was for the call in flight.
C37_SelectsBelowThreshold ==
    method = AUTO =>
        /\ DetermineMethod.m \in Strategies
        /\ CounterLeft(DetermineMethod, DetermineMethod.m) < Threshold(DetermineMethod.m)
        /\ pc # "idle" => (start \in Strategies /\ f0[start] < Threshold(start))

\* all three counters at their thresholds: the next selection resets them
C37_Witness ==
    /\ method = AUTO
    /\ pc = "done"
    /\ direct_api_failures >= max_direct_api_failures
    /\ websocket_failures >= max_websocket_failures
    /\ browser_failures >= max_browser_failures
    /\ DetermineMethod = [m |-> DIRECT_API, d |-> 0, w |-> 0, b |-> 0]

\* control of send_message stands at the block of strategy s
AtBlock(s) == pc = InitPc(s)

\* C38: in AUTO mode a strategy whose failure counter is at or above its
\* threshold is not attempted, as the start or through escalation, until the
\* reset has zeroed it; hence no failure counter exceeds its threshold.
C38_NoAttemptAtThreshold ==
    method = AUTO =>
        \A s \in Strategies :
            /\ Failures(s) <= Threshold(s)
            /\ AtBlock(s) => Failures(s) < Threshold(s)

\* this step is a block of send_message returning the response of strategy s
SucceedsNow(s) == pc # "done" /\ pc' = "done" /\ result_by' = s
\* this step is a _determine_method that found all three counters at or above
\* their thresholds
ResetsNow ==
    /\ method = AUTO
    /\ total_api_calls' = total_api_calls + 1
    /\ \A s \in Strategies : Failures(s) >= Threshold(s)

\* C39: a failure counter is lowered only to 0, by the success of its own
\* strategy or by the reset of all three counters; nothing else lowers it
\* (another strategy's success, close, a failed call), and one send_message
\* call raises a counter by at most 1.
CounterSteps ==
    \A s \in Strategies :
        /\ Failures(s)' < Failures(s) =>
              /\ Failures(s)' = 0
              /\ SucceedsNow(s) \/ (ResetsNow /\ \A o \in Strategies : Failures(o)' = 0)
        /\ Failures(s)' <= Failures(s) + 1
        /\ pc' # "idle" => Failures(s)' <= f0'[s] + 1
C40_BrowserBundleFeedsWebSocket ==
    \A c \in wsclient :
        (c.auth_data.connection_params # {} /\ c.state # "DISCONNECTED")
        => /\ c.client_id = The(c.auth_data.connection_params).clientId
           /\ c.session_id = The(c.auth_data.connection_params).sessionId
           /\ c.state # "ERROR"

====
